---- MODULE Spec2Model ----
(***************************************************************************)
(* Tour capture and assembly pipeline of tour-recorder/record-tour.py      *)
(* (step-based workflow of main) with the Colab TTS dispatcher of          *)
(* colab/colab_dispatcher.py as one of its audio backends.                 *)
(*                                                                         *)
(* Durations and clock readings are integers in tenths of a second.        *)
(* A browser or recording context counts as closed once close() has been   *)
(* called on it.  The wall clock is taken to be non-decreasing.            *)
(***************************************************************************)
EXTENDS Integers, Sequences, FiniteSets, TLC

(* ------------------------------ bounds --------------------------------- *)
MaxSteps == 2
MaxRetries == 2
MaxJitter == 1

(* --------------------------- input domains ----------------------------- *)
Modes == {"independent", "continuous"}
TtsBackends == {"local", "colab", "colab-f5"}
AudioDurations == {10, 20}
TargetDurations == {0, 30}
MaxDurations == {20, 40}
RetryChoices == (0 - 1)..MaxRetries
Jitters == {0, MaxJitter}
BlankURL == <<"about:blank">>
PageURLs == { <<"a">>, <<"a", "/">>, <<"b">> }
URLs == PageURLs \cup {BlankURL}

(* Step ids of a spec with n steps: 1..n in order, or the same with one     *)
(* position overwritten by another position's id (a duplicate).             *)
IdSeqs(n) == { [i \in 1..n |-> IF i = k THEN j ELSE i] : k \in 1..n, j \in 1..n }

(* Narration texts as sequences of characters: empty, blank, a word. *)
Narrations == { << >>, << " " >>, << "t" >> }

(* The keys load_tour_spec requires. *)
RequiredMeta == { "title", "target_duration_seconds", "max_duration_seconds" }
RequiredSettings == { "viewport", "video_size", "voice", "speech_speed", "language",
                      "default_step_timeout", "max_retries_per_step", "browser" }
RequiredOutput == { "path", "video_codec", "video_preset", "video_crf",
                    "audio_codec", "audio_bitrate" }
RequiredItemFields == { "id", "narration" }

(* The one key a spec file lacks, if any: a top-level key (key = ""), a      *)
(* sub-key of meta, settings or output, or a field of step number index.     *)
(* A spec without "steps" has no "segments" either.                          *)
KeyPath(section, key, index) == [section |-> section, key |-> key, index |-> index]
NoKey == KeyPath("none", "", 0)
MissingKeys(n) ==
    {NoKey}
    \cup { KeyPath(t, "", 0) : t \in { "meta", "settings", "steps", "output" } }
    \cup { KeyPath("meta", k, 0) : k \in RequiredMeta }
    \cup { KeyPath("settings", k, 0) : k \in RequiredSettings }
    \cup { KeyPath("output", k, 0) : k \in RequiredOutput }
    \cup { KeyPath("steps", f, i) : f \in RequiredItemFields, i \in 1..n }

(* ----------------------------- constants ------------------------------- *)
NoneClip == 0
ContinuousClip == 0 - 1
NoOffset == 0 - 1
PostRollIndependent == 14
PostRollContinuous == 10
NarrationLeadIn == 10
MuxLeadIn == 10000
ZoomTransitionMs == 600
ZoomNavHold == 8
TrailingLead == 20
ZoomEpsilon == 10
CenterEpsilon == 10

VARIABLES
    pc,               \* position in main / the capture functions
    rc,               \* main's return value, -1 while running
    phases,           \* history: phases started, each with its status
    dry_run, mode,    \* args.dry_run, settings.mode
    steps,            \* spec["steps"] as the sequence of step ids
    narration,        \* each step's narration text
    missing,          \* the key the spec file lacks
    validation,       \* history: how load_tour_spec ended
    time_budget,      \* each step's time_budget_seconds as << numerator, denominator >>
    target_duration, max_duration,
    step_audio,       \* step id -> audio duration
    max_retries,      \* settings.max_retries_per_step as read in run_capture_phase
    idx, attempts,    \* loop position: 1-based step index, attempts of the step
    results,          \* list[StepResult]
    exc,              \* an exception is propagating through the capture finally
    browser,          \* the browser the capture function holds (0: none)
    n_browsers, open_browsers,
    context, page,    \* continuous mode: context id (0: None), page not None
    n_contexts, open_contexts,
    page_url,         \* URL the page shows
    now, recording_started,
    last_nav,         \* history: the current/last continuous step's navigation decision
    step_log,         \* history: every capture attempt / continuous step, with its outcome
    clips,            \* clip files on disk (step ids, ContinuousClip)
    final_file,       \* the final output file exists
    final_duration,
    duration_check,   \* history: what print_report's duration check did
    keyframes,        \* the camera path _maybe_apply_zoom built
    zoom_log,         \* history: one entry per call of apply_zoom_pan
    call_args,        \* arguments of a function exercised on its own
    call_result       \* history: what that function returned or did

vars == << pc, rc, phases, dry_run, mode, steps, narration, missing, validation,
           time_budget, target_duration, max_duration,
           step_audio, max_retries, idx, attempts, results, exc, browser,
           n_browsers, open_browsers, context, page, n_contexts, open_contexts,
           page_url, now, recording_started, last_nav, step_log,
           clips, final_file, final_duration, duration_check, keyframes,
           zoom_log, call_args, call_result >>

mainVars == << dry_run, mode, steps, narration, missing, target_duration,
              max_duration >>
loadVars == << validation, time_budget >>
zoomVars == << keyframes, zoom_log >>
callVars == << call_args, call_result >>
captureVars == << max_retries, idx, attempts, results, exc, browser, n_browsers,
                  open_browsers, context, page, n_contexts, open_contexts,
                  page_url, now, recording_started, last_nav, step_log,
                  clips >>
outputVars == << final_file, final_duration, duration_check >>

NoNav == [idx |-> 0, current_url |-> BlankURL, target_url |-> BlankURL, goto |-> FALSE]
EmptyAudio == [i \in {} |-> 0]
NoCall == [function |-> "none"]
NotLoaded == [type |-> "pending", kind |-> "pending", names |-> {}, id |-> 0]

Init ==
    /\ pc = "validate"
    /\ rc = 0 - 1
    /\ phases = << >>
    /\ dry_run \in BOOLEAN
    /\ mode \in Modes
    /\ \E n \in 1..MaxSteps :
         /\ steps \in IdSeqs(n)
         /\ narration \in [1..n -> Narrations]
         /\ missing \in MissingKeys(n)
    /\ validation = NotLoaded
    /\ time_budget = << >>
    /\ target_duration \in TargetDurations
    /\ max_duration \in MaxDurations
    /\ step_audio = EmptyAudio
    /\ max_retries = 0
    /\ idx = 0
    /\ attempts = 0
    /\ results = << >>
    /\ exc = FALSE
    /\ browser = 0
    /\ n_browsers = 0
    /\ open_browsers = {}
    /\ context = 0
    /\ page = FALSE
    /\ n_contexts = 0
    /\ open_contexts = {}
    /\ page_url = BlankURL
    /\ now = 0
    /\ recording_started = 0
    /\ last_nav = NoNav
    /\ step_log = << >>
    /\ clips = {}
    /\ final_file = FALSE
    /\ final_duration = 0
    /\ duration_check = "none"
    /\ keyframes = << >>
    /\ zoom_log = << >>
    /\ call_args = NoCall
    /\ call_result = NoCall

(* ------------------------------ helpers -------------------------------- *)
Range(s) == { s[i] : i \in DOMAIN s }

RECURSIVE SumDurations(_, _)
SumDurations(audio, ids) ==
    IF ids = {} THEN 0
    ELSE LET i == CHOOSE x \in ids : TRUE
         IN audio[i] + SumDurations(audio, ids \ {i})

(* A phase that starts and ends inside one step of main. *)
PhaseDone(name, ok) ==
    Append(phases, [name |-> name, status |-> IF ok THEN "ok" ELSE "error"])
PhaseStarted(name) == Append(phases, [name |-> name, status |-> "running"])
PhaseEnded(ok) ==
    [phases EXCEPT ![Len(phases)].status = IF ok THEN "ok" ELSE "error"]

(* Variant: main returning 0 whatever happened. *)
MainReturnsZero(code) == pc' = "exit" /\ rc' = 0
(* main's `return 0`, and `except Exception: log; return 1`. *)
MainReturns(code) == pc' = "exit" /\ rc' = code

(* Variant: the zoom post-step called before assembly. *)
PhaseAfterZoomFirst(name) ==
    CASE name = "validate" -> "audio"
      [] name = "audio"    -> "capture"
      [] name = "capture"  -> "camera"
      [] name = "camera"   -> "assemble"
      [] name = "assemble" -> "reencode"
      [] name = "reencode" -> "overlays"
      [] name = "overlays" -> "report"

(* The order of the calls in main's try block (step-based workflow). *)
PhaseAfter(name) ==
    CASE name = "validate" -> "audio"
      [] name = "audio"    -> "capture"
      [] name = "capture"  -> "assemble"
      [] name = "assemble" -> "camera"
      [] name = "camera"   -> "reencode"
      [] name = "reencode" -> "overlays"
      [] name = "overlays" -> "report"

(* Variant: assembly and the post-steps run whatever dry_run says. *)
AfterCaptureIgnoresDryRun(dry) == PhaseAfter("capture")
(* `if not args.dry_run:` around assembly and the post-steps. *)
AfterCapture(dry) == IF dry THEN "report" ELSE PhaseAfter("capture")

(* --------------------- Phase A: load_tour_spec ------------------------- *)
\* Variant: the id check left out.
NoDuplicateIdsUnchecked(ids) == TRUE
NoDuplicateIds(ids) ==
    \A i, j \in DOMAIN ids : i # j => ids[i] # ids[j]

DurationsValid(target, maximum) == target > 0 /\ maximum >= target

\* Variant: the target handed out undivided.
TimeBudgetUndivided(target, n) == << target, 1 >>
\* budget = target / len(spec["steps"]), kept as a fraction.
TimeBudget(target, n) == << target, n >>

\* How load_tour_spec ends: the exception type, the check that raised, the
\* key names and the step id its message contains.
Raised(type, kind, names, id) == [type |-> type, kind |-> kind, names |-> names, id |-> id]
Returned == Raised("none", "ok", {}, 0)

\* load_tour_spec on a spec file: file_ok says the file exists and is JSON.
\* The checks in the order of the code; the first one that fails raises.
\* Each item is checked for its fields and then for its id, item by item.
LoadResult(file_ok, lacks, ids, target, maximum) ==
    LET ItemLacks(i) == lacks.section = "steps" /\ lacks.index = i
        Repeats(i) == ~NoDuplicateIds(SubSeq(ids, 1, i))
        bad == { i \in DOMAIN ids : ItemLacks(i) \/ Repeats(i) }
        first == CHOOSE i \in bad : \A j \in bad : i <= j
    IN IF ~file_ok THEN Raised("TourError", "file", {}, 0)
       ELSE IF lacks = KeyPath("steps", "", 0)
         THEN Raised("TourError", "no_steps", { "steps", "segments" }, 0)
       ELSE IF lacks.section \in { "meta", "settings", "output" } /\ lacks.key = ""
         THEN Raised("KeyError", "key", { lacks.section }, 0)
       ELSE IF lacks.section \in { "meta", "settings", "output" }
         THEN Raised("TourError", "missing", { lacks.section, lacks.key }, 0)
       ELSE IF bad # {}
         THEN IF ItemLacks(first)
                THEN Raised("TourError", "missing", { lacks.key }, 0)
                ELSE Raised("TourError", "duplicate", {}, ids[first])
       ELSE IF target <= 0
         THEN Raised("TourError", "target", { "target_duration_seconds" }, 0)
       ELSE IF ~DurationsValid(target, maximum)
         THEN Raised("TourError", "maximum",
                     { "max_duration_seconds", "target_duration_seconds" }, 0)
       ELSE Returned

\* ensure_tooling, load_tour_spec, the --skip-tts/--work-dir check,
\* create_work_dirs and run_pre_setup.  tooling_ok: the binaries and models
\* exist; ext_ok: no failure of the work directory or a pre-setup command.
LoadTourSpec ==
    /\ pc = "validate"
    /\ \E tooling_ok \in BOOLEAN, file_ok \in BOOLEAN, ext_ok \in BOOLEAN :
         LET r == LoadResult(file_ok, missing, steps, target_duration, max_duration)
             ok == tooling_ok /\ r = Returned /\ ext_ok
         IN /\ validation' = IF tooling_ok THEN r ELSE validation
            /\ time_budget' = IF tooling_ok /\ r = Returned
                                THEN [i \in DOMAIN steps |->
                                         TimeBudget(target_duration, Len(steps))]
                                ELSE time_budget
            /\ phases' = PhaseDone("validate", ok)
            /\ IF ok THEN pc' = PhaseAfter("validate") /\ rc' = rc
                     ELSE MainReturns(1)
    /\ UNCHANGED << callVars, zoomVars, mainVars, step_audio, captureVars, outputVars >>

(* ------------------------ Phase B: audio ------------------------------- *)
TotalExceeds(total, target) == total > target

\* str.strip() of a narration text.
RECURSIVE Strip(_)
Strip(text) ==
    IF text = << >> THEN text
    ELSE IF Head(text) = " " THEN Strip(Tail(text))
    ELSE IF text[Len(text)] = " " THEN Strip(SubSeq(text, 1, Len(text) - 1))
    ELSE text

\* The ids of the steps whose stripped narration is empty.
EmptyNarrations == { steps[i] : i \in { j \in DOMAIN steps : Strip(narration[j]) = << >> } }

\* prerender_tts: d the duration of each step's audio, empties the steps
\* whose stripped narration is empty, ext_ok: model load, synthesis, write
\* and (with --skip-tts) the reused files all succeed.
PrerenderTts(d, empties, ext_ok) ==
    LET ids == Range(steps)
        raised == \/ ~ext_ok
                  \/ empties # {}
                  \/ TotalExceeds(SumDurations(d, ids), target_duration)
    IN [raised |-> raised, audio |-> d]

\* ColabTTSDispatcher._copy_results: an entry for every item with narration.
CopyResults(d, empties) ==
    [i \in (Range(steps) \ empties) |-> d[i]]

\* ColabTTSDispatcher.dispatch_and_wait / ColabF5TTSDispatcher.dispatch_and_wait:
\* ext_ok: the drive directory exists, done.marker arrives before the
\* timeout with no error.marker, and every expected WAV is there.
DispatchAndWait(d, empties, ext_ok) ==
    LET ids == Range(steps)
        raised == \/ ~ext_ok
                  \/ ids \ empties = {}
    IN [raised |-> raised, audio |-> CopyResults(d, empties)]

\* Phase B of main with the audio of every step lasting one of `durations`.
RunAudioWith(durations) ==
    /\ pc = "audio"
    /\ \E backend \in TtsBackends, ext_ok \in BOOLEAN,
          d \in [Range(steps) -> durations] :
         LET empties == EmptyNarrations
             r == IF backend = "local" THEN PrerenderTts(d, empties, ext_ok)
                  ELSE DispatchAndWait(d, empties, ext_ok)
         IN /\ phases' = PhaseDone("audio", ~r.raised)
            /\ IF r.raised
                 THEN MainReturns(1) /\ step_audio' = step_audio
                 ELSE pc' = PhaseAfter("audio") /\ rc' = rc /\ step_audio' = r.audio
    /\ UNCHANGED << callVars, loadVars, zoomVars, mainVars, captureVars, outputVars >>

RunAudio == RunAudioWith(AudioDurations)

(* --------------------- Phase C: capture, shared ------------------------ *)
StepResult(step_id, attempt_count, success, clip_path, audio_duration, video_offset, step_end_offset) ==
    [step_id |-> step_id, attempt_count |-> attempt_count, success |-> success,
     clip_path |-> clip_path, audio_duration |-> audio_duration,
     video_offset |-> video_offset, step_end_offset |-> step_end_offset]

\* The list both capture functions return under dry_run.
DryRunResults ==
    [i \in 1..Len(steps) |->
        StepResult(steps[i], 0, TRUE, NoneClip, step_audio[steps[i]], 0, NoOffset)]

AudioKnown(i) == steps[i] \in DOMAIN step_audio

\* main: the capture function has returned or raised.
CaptureReturn ==
    /\ pc = "capture_return"
    /\ phases' = PhaseEnded(~exc)
    /\ IF exc THEN MainReturns(1)
       ELSE /\ rc' = rc
            /\ pc' = AfterCapture(dry_run)
    /\ UNCHANGED << callVars, loadVars, zoomVars, mainVars, step_audio, captureVars, outputVars >>

(* ------------------ Phase C: independent capture ----------------------- *)
\* run_capture_phase up to the browser check.
RunCapturePhase ==
    /\ pc = "capture"
    /\ mode = "independent"
    /\ phases' = PhaseStarted("capture")
    /\ IF dry_run
         THEN /\ pc' = "capture_return"
              /\ IF \A i \in 1..Len(steps) : AudioKnown(i)
                   THEN results' = DryRunResults /\ exc' = FALSE
                   ELSE results' = results /\ exc' = TRUE
              /\ max_retries' = max_retries
         ELSE /\ results' = << >>
              /\ \E r \in RetryChoices, chromium \in BOOLEAN :
                   /\ max_retries' = r
                   /\ IF chromium THEN pc' = "ind_launch" /\ exc' = FALSE
                                  ELSE pc' = "capture_return" /\ exc' = TRUE
    /\ UNCHANGED << callVars, loadVars, zoomVars, rc, mainVars, step_audio, idx, attempts, browser, n_browsers,
                    open_browsers, context, page, n_contexts, open_contexts,
                    page_url, now, recording_started, last_nav, step_log, clips,
                    outputVars >>

\* playwright.chromium.launch before the try block.
IndLaunch ==
    /\ pc = "ind_launch"
    /\ \E ok \in BOOLEAN :
         IF ok
           THEN /\ n_browsers' = n_browsers + 1
                /\ browser' = n_browsers + 1
                /\ open_browsers' = open_browsers \cup {n_browsers + 1}
                /\ idx' = 1
                /\ pc' = "ind_step"
                /\ exc' = exc
           ELSE /\ pc' = "capture_return"
                /\ exc' = TRUE
                /\ UNCHANGED << n_browsers, browser, open_browsers, idx >>
    /\ UNCHANGED << callVars, loadVars, zoomVars, rc, phases, mainVars, step_audio, max_retries, attempts, results,
                    context, page, n_contexts, open_contexts, page_url, now,
                    recording_started, last_nav, step_log, clips, outputVars >>

\* Head of the for loop: the step's audio lookup and attempts = 0.
IndStep ==
    /\ pc = "ind_step"
    /\ IF idx > Len(steps)
         THEN pc' = "ind_finally" /\ UNCHANGED << exc, attempts >>
         ELSE IF ~AudioKnown(idx)
           THEN pc' = "ind_finally" /\ exc' = TRUE /\ attempts' = attempts
           ELSE /\ pc' = "ind_attempt"
                /\ attempts' = 0
                /\ exc' = exc
    /\ UNCHANGED << callVars, loadVars, zoomVars, rc, phases, mainVars, step_audio, max_retries, idx, results,
                    browser, n_browsers, open_browsers, context, page, n_contexts,
                    open_contexts, page_url, now, recording_started, last_nav,
                    step_log, clips, outputVars >>

\* capture_step_video: the point at which the attempt raises ("none" and
\* "save_fallback" return the clip).
FailPoints == { "new_context", "new_page", "goto", "assertions", "actions", "hold",
                "context_close", "no_video", "save_unavailable", "clip_empty",
                "save_fallback", "none" }
AttemptSucceeds(fp) == fp \in { "save_fallback", "none" }
ContextAssigned(fp) == fp # "new_context"
PageAssigned(fp) == fp \notin { "new_context", "new_page" }
\* context.close() after the hold, inside the try block.
ClosedInTry(fp) == fp \in { "context_close", "no_video", "save_unavailable",
                            "clip_empty", "save_fallback", "none" }
\* Variant: the context closed only together with a page.
FinallyClosesOnlyWithPage(context_assigned, page_assigned) ==
    context_assigned /\ page_assigned
\* finally: `if context is not None: context.close()`.
FinallyClosesContext(context_assigned, page_assigned) == context_assigned
\* The destination file is written by save_as or by the copy fallback.
ClipWritten(fp) == fp \in { "save_fallback", "none" }

\* Variant: a retry budget that is one attempt too generous.
WithinBudgetOffByOne(n, retries) == n <= retries + 1
\* `attempts <= max_retries`, the condition of the while loop and of the retry.
WithinBudget(n, retries) == n <= retries
\* Variant: the browser kept for one more retry.
NeedsRelaunchLate(n) == n > 2
\* `if attempts > 1`: browser.close() and a new launch before the retry.
NeedsRelaunch(n) == n > 1

\* Variant: the result records the retries instead of the attempts.
SuccessResultCountsRetries(id, n, audio_duration) ==
    StepResult(id, n - 1, TRUE, id, audio_duration, 0, NoOffset)
SuccessResult(id, n, audio_duration) ==
    StepResult(id, n, TRUE, id, audio_duration, 0, NoOffset)
FailureResult(id, n, audio_duration) ==
    StepResult(id, n, FALSE, NoneClip, audio_duration, 0, NoOffset)
\* hold: how long a successful attempt (independent mode) or a completed
\* step (continuous mode) held the page, 0 for any other.
LogEntry(i, outcome, hold) == [idx |-> i, outcome |-> outcome, hold |-> hold]

\* Variant: the post-roll of continuous mode.
HoldSecondsIndependentShort(audio_duration) == audio_duration + PostRollContinuous
\* hold_seconds = audio_duration + 1.4
HoldSecondsIndependent(audio_duration) == audio_duration + PostRollIndependent

\* One iteration of `while attempts <= max_retries`.
IndAttempt ==
    /\ pc = "ind_attempt"
    /\ IF ~WithinBudget(attempts, max_retries)
         THEN /\ idx' = idx + 1
              /\ pc' = "ind_step"
              /\ UNCHANGED << attempts, results, exc, n_contexts, open_contexts, clips, step_log >>
         ELSE \E fp \in FailPoints :
              LET a == attempts + 1
                  id == steps[idx]
                  c == n_contexts + 1
                  opened == IF ContextAssigned(fp) THEN {c} ELSE {}
                  closed == IF ClosedInTry(fp)
                               \/ FinallyClosesContext(ContextAssigned(fp), PageAssigned(fp))
                            THEN {c} ELSE {}
              IN /\ attempts' = a
                 /\ step_log' = Append(step_log,
                        LogEntry(idx, IF AttemptSucceeds(fp) THEN "ok" ELSE "failed",
                                 IF AttemptSucceeds(fp)
                                   THEN HoldSecondsIndependent(step_audio[id])
                                   ELSE 0))
                 /\ n_contexts' = IF ContextAssigned(fp) THEN c ELSE n_contexts
                 /\ open_contexts' = (open_contexts \cup opened) \ closed
                 /\ clips' = IF ClipWritten(fp) THEN clips \cup {id} ELSE clips
                 /\ IF AttemptSucceeds(fp)
                      THEN /\ results' = Append(results,
                                  SuccessResult(id, a, step_audio[id]))
                           /\ idx' = idx + 1
                           /\ pc' = "ind_step"
                           /\ exc' = exc
                      ELSE IF WithinBudget(a, max_retries)
                        THEN /\ pc' = IF NeedsRelaunch(a) THEN "ind_relaunch"
                                                          ELSE "ind_attempt"
                             /\ UNCHANGED << results, idx, exc >>
                        ELSE /\ results' = Append(results,
                                  FailureResult(id, a, step_audio[id]))
                             /\ exc' = TRUE
                             /\ pc' = "ind_finally"
                             /\ idx' = idx
    /\ UNCHANGED << callVars, loadVars, zoomVars, rc, phases, mainVars, step_audio, max_retries, browser, n_browsers,
                    open_browsers, context, page, page_url, now, recording_started,
                    last_nav, outputVars >>

\* Variant: a close that leaves the instance open.
BrowserCloseSkipped(open, instance) == open
\* `try: browser.close() except Exception: pass`: the instance is gone
\* whether or not the call raised.
BrowserClose(open, instance) == open \ {instance}

\* Retry after the first retry: browser.close() then a new launch.
IndRelaunch ==
    /\ pc = "ind_relaunch"
    /\ \E ok \in BOOLEAN :
         IF ok
           THEN /\ n_browsers' = n_browsers + 1
                /\ browser' = n_browsers + 1
                /\ open_browsers' = BrowserClose(open_browsers, browser) \cup {n_browsers + 1}
                /\ pc' = "ind_attempt"
                /\ exc' = exc
           ELSE /\ open_browsers' = BrowserClose(open_browsers, browser)
                /\ pc' = "ind_finally"
                /\ exc' = TRUE
                /\ UNCHANGED << n_browsers, browser >>
    /\ UNCHANGED << callVars, loadVars, zoomVars, rc, phases, mainVars, step_audio, max_retries, idx, attempts,
                    results, context, page, n_contexts, open_contexts, page_url, now,
                    recording_started, last_nav, step_log, clips, outputVars >>

\* finally: browser.close(), then return results or re-raise.
IndFinally ==
    /\ pc = "ind_finally"
    /\ open_browsers' = BrowserClose(open_browsers, browser)
    /\ pc' = "capture_return"
    /\ UNCHANGED << callVars, loadVars, zoomVars, rc, phases, mainVars, step_audio, max_retries, idx, attempts,
                    results, exc, browser, n_browsers, context, page, n_contexts,
                    open_contexts, page_url, now, recording_started, last_nav,
                    step_log, clips, outputVars >>

(* ------------------ Phase C: continuous capture ------------------------ *)
\* str.rstrip("/")
RECURSIVE RStrip(_)
RStrip(url) ==
    IF Len(url) > 0 /\ url[Len(url)] = "/"
      THEN RStrip(SubSeq(url, 1, Len(url) - 1))
      ELSE url

\* Variant: the URLs compared as they are.
ShouldNavigateExact(i, current_url, target_url) ==
    i = 0 \/ current_url # target_url
\* should_navigate for the step at 0-based position i.
ShouldNavigate(i, current_url, target_url) ==
    i = 0 \/ RStrip(current_url) # RStrip(target_url)

\* Variant: a hold of the narration's length only.
HoldWithoutPostRoll(audio_duration) == audio_duration
\* hold_seconds = audio_duration + 1.0
HoldSecondsContinuous(audio_duration) == audio_duration + PostRollContinuous

\* run_continuous_capture up to the browser check.
RunContinuousCapture ==
    /\ pc = "capture"
    /\ mode = "continuous"
    /\ phases' = PhaseStarted("capture")
    /\ IF dry_run
         THEN /\ pc' = "capture_return"
              /\ IF \A i \in 1..Len(steps) : AudioKnown(i)
                   THEN results' = DryRunResults /\ exc' = FALSE
                   ELSE results' = results /\ exc' = TRUE
         ELSE /\ results' = << >>
              /\ \E chromium \in BOOLEAN :
                   IF chromium THEN pc' = "cont_launch" /\ exc' = FALSE
                               ELSE pc' = "capture_return" /\ exc' = TRUE
    /\ UNCHANGED << callVars, loadVars, zoomVars, rc, mainVars, step_audio, max_retries, idx, attempts, browser,
                    n_browsers, open_browsers, context, page, n_contexts,
                    open_contexts, page_url, now, recording_started, last_nav,
                    step_log, clips, outputVars >>

\* playwright.chromium.launch before the try block.
ContLaunch ==
    /\ pc = "cont_launch"
    /\ \E ok \in BOOLEAN :
         IF ok
           THEN /\ n_browsers' = n_browsers + 1
                /\ browser' = n_browsers + 1
                /\ open_browsers' = open_browsers \cup {n_browsers + 1}
                /\ pc' = "cont_open"
                /\ exc' = exc
           ELSE /\ pc' = "capture_return"
                /\ exc' = TRUE
                /\ UNCHANGED << n_browsers, browser, open_browsers >>
    /\ UNCHANGED << callVars, loadVars, zoomVars, rc, phases, mainVars, step_audio, max_retries, idx, attempts,
                    results, context, page, n_contexts, open_contexts, page_url, now,
                    recording_started, last_nav, step_log, clips, outputVars >>

\* browser.new_context, context.new_page, recording_started = time.time().
ContOpen ==
    /\ pc = "cont_open"
    /\ \E o \in { "new_context", "new_page", "ok" } :
         /\ IF o = "new_context"
              THEN UNCHANGED << context, n_contexts, open_contexts >>
              ELSE /\ n_contexts' = n_contexts + 1
                   /\ context' = n_contexts + 1
                   /\ open_contexts' = open_contexts \cup {n_contexts + 1}
         /\ page' = (o = "ok")
         /\ IF o = "ok"
              THEN /\ recording_started' = now
                   /\ idx' = 1
                   /\ pc' = "cont_step"
                   /\ exc' = exc
              ELSE /\ pc' = "cont_finally"
                   /\ exc' = TRUE
                   /\ UNCHANGED << recording_started, idx >>
    /\ UNCHANGED << callVars, loadVars, zoomVars, rc, phases, mainVars, step_audio, max_retries, attempts, results,
                    browser, n_browsers, open_browsers, page_url, now, last_nav,
                    step_log, clips, outputVars >>

\* Outcome of the try block of a step: navigation, assertions, actions.
BodyOutcomes == { "ok", "goto", "assertions", "actions" }

\* Variant: a handler that lets a failure of the actions through.
ExceptMissesActions(body) == body # "actions"
\* `except Exception` around the try block catches every failure of it.
ExceptCatches(body) == TRUE

StepStartOffset(step_wall_start, started) == step_wall_start - started
\* Variant: the end offset measured from the start of the step.
StepEndOffsetFromStepStart(end_time, step_wall_start, started) ==
    end_time - step_wall_start
\* step_end_offset = time.time() - recording_started, read after the hold.
StepEndOffset(end_time, step_wall_start, started) == end_time - started

\* One iteration of the for loop.  body: outcome of the try block; hold_ok:
\* page.wait_for_timeout returns; gap: clock advance since the last reading;
\* work: duration of the try block (both taken from lag); url_after: the URL
\* the page shows when the step ends.  A KeyError on step_audio[step_id] and a
\* raising hold leave the loop for the finally block.
ContStep ==
    /\ pc = "cont_step"
    /\ idx <= Len(steps)
    /\ \E body \in BodyOutcomes, hold_ok \in BOOLEAN :
         LET caught == body = "ok" \/ ExceptCatches(body)
         IN IF ~AudioKnown(idx) \/ ~caught \/ ~hold_ok
              THEN /\ pc' = "cont_finally"
                   /\ exc' = TRUE
                   /\ step_log' = Append(step_log,
                          LogEntry(idx, IF AudioKnown(idx) /\ ~caught THEN "failed"
                                                                     ELSE "aborted", 0))
                   /\ UNCHANGED << idx, results, page_url, now, last_nav >>
              ELSE \E lag \in Jitters, target_url \in URLs, url_after \in PageURLs :
                   LET id == steps[idx]
                       audio_duration == step_audio[id]
                       gap == lag
                       work == lag
                       step_wall_start == now + gap
                       goto == ShouldNavigate(idx - 1, page_url, target_url)
                       end_time == step_wall_start + work
                                       + HoldSecondsContinuous(audio_duration)
                   IN /\ body = "goto" => goto
                      /\ step_log' = Append(step_log,
                             LogEntry(idx, IF body = "ok" THEN "ok" ELSE "failed",
                                      HoldSecondsContinuous(audio_duration)))
                      /\ last_nav' = [idx |-> idx, current_url |-> page_url,
                                      target_url |-> target_url, goto |-> goto]
                      /\ page_url' = url_after
                      /\ now' = end_time
                      /\ results' = Append(results,
                             StepResult(id, 1, body = "ok", NoneClip, audio_duration,
                                 StepStartOffset(step_wall_start, recording_started),
                                 StepEndOffset(end_time, step_wall_start,
                                               recording_started)))
                      /\ idx' = idx + 1
                      /\ pc' = "cont_step"
                      /\ exc' = exc
    /\ UNCHANGED << callVars, loadVars, zoomVars, rc, phases, mainVars, step_audio, max_retries, attempts, browser,
                    n_browsers, open_browsers, context, page, n_contexts,
                    open_contexts, recording_started, clips, outputVars >>

\* After the loop: page.close(), context.close(), save the recording.  The
\* loop's locals and the page's URL are not read again.
ContFinish ==
    /\ pc = "cont_step"
    /\ idx > Len(steps)
    /\ pc' = "cont_finally"
    /\ \E o \in { "page_close", "context_close", "no_video", "save_unavailable",
                  "clip_empty", "save_fallback", "ok" } :
         /\ page' = (o = "page_close")
         /\ open_contexts' = IF o = "page_close" THEN open_contexts
                             ELSE open_contexts \ {context}
         /\ context' = IF o \in { "page_close", "context_close" } THEN context ELSE 0
         /\ exc' = (o \notin { "save_fallback", "ok" })
         /\ IF o \in { "save_fallback", "ok" }
              THEN /\ clips' = clips \cup {ContinuousClip}
                   /\ results' = IF Len(results) > 0
                                   THEN [results EXCEPT ![1].clip_path = ContinuousClip]
                                   ELSE results
              ELSE UNCHANGED << clips, results >>
    /\ page_url' = BlankURL
    /\ last_nav' = NoNav
    /\ UNCHANGED << callVars, loadVars, zoomVars, rc, phases, mainVars, step_audio, max_retries, idx, attempts,
                    browser, n_browsers, open_browsers, n_contexts, now,
                    recording_started, step_log, outputVars >>

\* finally: `if context is not None: context.close()`.
ContFinallyClosesContext(context_set, page_set) == context_set

\* finally: close the page, the context and the browser; the page and the
\* step loop's locals are gone afterwards.
ContFinally ==
    /\ pc = "cont_finally"
    /\ page' = FALSE
    /\ open_contexts' = IF ContFinallyClosesContext(context # 0, page)
                          THEN open_contexts \ {context} ELSE open_contexts
    /\ open_browsers' = open_browsers \ {browser}
    /\ page_url' = BlankURL
    /\ last_nav' = NoNav
    /\ pc' = "capture_return"
    /\ UNCHANGED << callVars, loadVars, zoomVars, rc, phases, mainVars, step_audio, max_retries, idx, attempts,
                    results, exc, browser, n_browsers, context, n_contexts,
                    now, recording_started, step_log, clips, outputVars >>

(* ----------------------- Phase D: assembly ----------------------------- *)
Min(a, b) == IF a <= b THEN a ELSE b
Max(a, b) == IF a >= b THEN a ELSE b

RECURSIVE SumSeq(_)
SumSeq(q) == IF q = << >> THEN 0 ELSE Head(q) + SumSeq(Tail(q))

\* Variant: only the clip path is looked at.
CanAssembleIgnoresSuccess(result) == result.clip_path # NoneClip
\* assemble_video refuses a result with `not result.success or result.clip_path is None`.
CanAssemble(result) == result.success /\ result.clip_path # NoneClip

\* Variant: the clips removed whether or not the concatenation was written.
UnlinkedClipsAlways(res, raised) == { res[i].clip_path : i \in DOMAIN res }
\* The loop after concat_step_clips unlinks every result's clip; a raise
\* before it leaves them all.
UnlinkedClips(res, raised) ==
    IF raised THEN {} ELSE { res[i].clip_path : i \in DOMAIN res }

\* assemble_video on a result list; ext_ok: every ffmpeg run succeeds.
\* The loop raises at the first result it cannot assemble, before the concat
\* that writes the final file and before the clips are unlinked.
AssembleVideo(res, ext_ok) ==
    LET refused == \E i \in DOMAIN res : ~CanAssemble(res[i])
        raised == refused \/ ~ext_ok
    IN [raised |-> raised,
        final_written |-> ~raised,
        per_step_muxed |-> IF refused THEN << >>
                                      ELSE [i \in DOMAIN res |-> res[i].step_id],
        unlinked |-> UnlinkedClips(res, raised)]

\* Total length of the recorded clips: each lasts at least its hold.
ClipsLength(res) ==
    SumSeq([i \in DOMAIN res |-> HoldSecondsIndependent(res[i].audio_duration)])

(* mux_audio_with_offset, in ticks of 0.1 ms so that the rounding of the    *)
(* padding to milliseconds shows.                                          *)
\* f"{extra:.3f}": the value rounded to the nearest millisecond.
Format3f(x) == ((x + 5) \div 10) * 10

\* extra = max(0.0, required_duration - base_duration)
MuxExtra(base_duration, audio_duration) ==
    Max(0, audio_duration + MuxLeadIn - base_duration)

\* The muxed clip: the video with tpad's stop_duration appended, the audio
\* after adelay=1000, and `-shortest` ending the file with the shorter one.
MuxAudioWithOffset(base_duration, audio_duration) ==
    LET extra == MuxExtra(base_duration, audio_duration)
        video == base_duration + (IF extra > 0 THEN Format3f(extra) ELSE 0)
        audio == MuxLeadIn + audio_duration
        length == Min(video, audio)
    IN [padding |-> video - base_duration,
        video |-> video,
        audio |-> audio,
        length |-> length,
        narration |-> Max(0, length - MuxLeadIn)]

\* Length in tenths of a second of the muxed clips of an independent
\* capture whose clips last their hold and `extra` more.
MuxedLength(res, extra) ==
    SumSeq([i \in DOMAIN res |->
              MuxAudioWithOffset((HoldSecondsIndependent(res[i].audio_duration) + extra) * 1000,
                                 res[i].audio_duration * 1000).length \div 1000])

\* Variant: a concatenation that is not cut.
ConcatStepClipsUncut(length, target) == length
\* concat_step_clips: length of the file written with `-t target_duration`.
ConcatStepClips(length, target) == Min(length, target)

AssembleIndependent ==
    /\ pc = "assemble"
    /\ mode = "independent"
    /\ \E ext_ok \in BOOLEAN, extra \in Jitters :
         LET r == AssembleVideo(results, ext_ok)
         IN /\ phases' = PhaseDone("assemble", ~r.raised)
            /\ clips' = clips \ r.unlinked
            /\ IF r.raised
                 THEN MainReturns(1) /\ UNCHANGED outputVars
                 ELSE /\ pc' = PhaseAfter("assemble")
                      /\ rc' = rc
                      /\ final_file' = TRUE
                      /\ final_duration' = ConcatStepClips(MuxedLength(results, extra),
                                                           target_duration)
                      /\ duration_check' = duration_check
    /\ UNCHANGED << callVars, loadVars, zoomVars, mainVars, step_audio, max_retries, idx, attempts, results, exc,
                    browser, n_browsers, open_browsers, context, page, n_contexts,
                    open_contexts, page_url, now, recording_started, last_nav,
                    step_log >>

\* Variant: the mix written at its full length.
ContinuousMixUncut(length, maximum) == length
\* assemble_continuous_video ends its ffmpeg command with `-shortest -t
\* max_duration`.
ContinuousMix(length, maximum) == Min(length, maximum)

\* assemble_continuous_video on a result list.
AssembleContinuousVideo(res, ext_ok) ==
    LET no_clip == \A i \in DOMAIN res : res[i].clip_path = NoneClip
        raised == res = << >> \/ no_clip \/ ~ext_ok
    IN [raised |-> raised,
        final_written |-> ~raised,
        unlinked |-> IF raised THEN {} ELSE {ContinuousClip}]

\* Where assemble_continuous_video places a step's narration in the mix:
\* adelay of (video_offset + 1.0) s, then the audio's own length.
NarrationStart(result) == result.video_offset + NarrationLeadIn
NarrationEnd(result) == NarrationStart(result) + result.audio_duration

AssembleContinuous ==
    /\ pc = "assemble"
    /\ mode = "continuous"
    /\ \E ext_ok \in BOOLEAN :
         LET r == AssembleContinuousVideo(results, ext_ok)
         IN /\ phases' = PhaseDone("assemble", ~r.raised)
            /\ clips' = clips \ r.unlinked
            /\ IF r.raised
                 THEN MainReturns(1) /\ UNCHANGED outputVars
                 ELSE /\ pc' = PhaseAfter("assemble")
                      /\ rc' = rc
                      /\ final_file' = TRUE
                      /\ final_duration' = ContinuousMix(now - recording_started,
                                                         max_duration)
                      /\ duration_check' = duration_check
    /\ UNCHANGED << callVars, loadVars, zoomVars, mainVars, step_audio, max_retries, idx, attempts, results, exc,
                    browser, n_browsers, open_browsers, context, page, n_contexts,
                    open_contexts, page_url, now, recording_started, last_nav,
                    step_log >>

(* -------------------- post-steps and report ---------------------------- *)
ZoomModes == { "off", "auto", "mobile" }
EncodeBackends == { "local", "colab-nvenc" }
OverlayDurations == { 0, 20 }

(* Camera path.  Times in tenths of a second, centers in tenths of a pixel,  *)
(* zoom factors in 1/10000.  A keyframe also carries, as history, the focus  *)
(* name it was made for and the position of the result that produced it.    *)
Abs(x) == IF x < 0 THEN 0 - x ELSE x
Foci == { "editor", "terminal", "full" }
Keyframe(time, cx, cy, zoom, transition_ms, focus, step) ==
    [time |-> time, cx |-> cx, cy |-> cy, zoom |-> zoom,
     transition_ms |-> transition_ms, focus |-> focus, step |-> step]

\* FOCUS_PRESETS
FocusPreset(focus) ==
    CASE focus = "editor"   -> [name |-> focus, cx |-> 7800, cy |-> 4000, zoom |-> 22000]
      [] focus = "terminal" -> [name |-> focus, cx |-> 9600, cy |-> 8700, zoom |-> 24000]
      [] focus = "full"     -> [name |-> focus, cx |-> 9600, cy |-> 5400, zoom |-> 10000]

\* What a step asks of the camera: the preset of its dominant focus.  (A
\* per-step "zoom" override names a preset too and may replace its numbers;
\* AnyKeyframes below covers keyframes with other numbers.)
StepFocusChoices == { FocusPreset(f) : f \in Foci }

\* Action types by the focus _action_focus gives them; the last two stand
\* for every type it maps to "" (press_key, pause and any other).
EditorActions == { "type_text", "focus_editor", "highlight_lines", "select_all_and_delete" }
TerminalActions == { "terminal_type" }
FullActions == { "command_palette", "dismiss_popups", "wait_for_load",
                 "wait_for_selector", "hide_secondary_sidebar" }
ActionTypes == EditorActions \cup TerminalActions \cup FullActions \cup { "press_key", "pause" }

\* _action_focus
ActionFocus(atype) ==
    IF atype \in EditorActions THEN "editor"
    ELSE IF atype \in TerminalActions THEN "terminal"
    ELSE IF atype \in FullActions THEN "full"
    ELSE ""

\* counts[focus] after the loop of _dominant_focus, and the position at which
\* the key was inserted (the first action mapped to it).
FocusCount(actions, focus) ==
    Cardinality({ k \in DOMAIN actions : ActionFocus(actions[k]) = focus })
FirstMapped(actions, focus) ==
    CHOOSE k \in DOMAIN actions :
        /\ ActionFocus(actions[k]) = focus
        /\ \A l \in 1..(k - 1) : ActionFocus(actions[l]) # focus

\* max(counts, key=...): the first key, in insertion order, of largest count.
MaxCount(actions) ==
    LET keys == { f \in Foci : FocusCount(actions, f) > 0 }
    IN CHOOSE f \in keys :
         \A g \in keys \ {f} :
            \/ FocusCount(actions, f) > FocusCount(actions, g)
            \/ /\ FocusCount(actions, f) = FocusCount(actions, g)
               /\ FirstMapped(actions, f) < FirstMapped(actions, g)

\* Variant: plain majority, terminal not preferred.
DominantFocusByMajority(actions) ==
    IF \A f \in Foci : FocusCount(actions, f) = 0 THEN "editor"
    ELSE MaxCount(actions)
\* _dominant_focus
DominantFocus(actions) ==
    IF \A f \in Foci : FocusCount(actions, f) = 0 THEN "editor"
    ELSE IF FocusCount(actions, "terminal") > 0 THEN "terminal"
    ELSE MaxCount(actions)

FullFrame(time, transition_ms, step) ==
    Keyframe(time, FocusPreset("full").cx, FocusPreset("full").cy,
             FocusPreset("full").zoom, transition_ms, "full", step)

\* Variant: a change of region never routed through the full frame.
NoEstablishingShot(prev_focus, focus_name) == FALSE
\* `focus_name != prev_focus and prev_focus != "full" and focus_name != "full"`
NeedsEstablishingShot(prev_focus, focus_name) ==
    focus_name # prev_focus /\ prev_focus # "full" /\ focus_name # "full"

\* The for loop of build_camera_path from result i on.  matched: the step
\* definition of a result is found (`s["id"] == result.step_id`).
RECURSIVE CameraSteps(_, _, _, _, _)
CameraSteps(res, want, matched, i, prev_focus) ==
    IF i > Len(res) THEN << >>
    ELSE IF ~matched THEN CameraSteps(res, want, matched, i + 1, prev_focus)
    ELSE LET step_start == res[i].video_offset
             f == want[i]
             target == Keyframe(step_start, f.cx, f.cy, f.zoom, ZoomTransitionMs,
                                f.name, i)
             own == IF NeedsEstablishingShot(prev_focus, f.name)
                      THEN << FullFrame(step_start, ZoomTransitionMs, i),
                              [target EXCEPT !.time = step_start + ZoomNavHold] >>
                      ELSE << target >>
         IN own \o CameraSteps(res, want, matched, i + 1, f.name)

\* build_camera_path
BuildCameraPath(res, want, matched, total_duration) ==
    << FullFrame(0, 0, 0) >>
    \o CameraSteps(res, want, matched, 1, "full")
    \o (IF total_duration > 0
          THEN << FullFrame(Max(0, total_duration - TrailingLead), ZoomTransitionMs, 0) >>
          ELSE << >>)

\* --zoom mobile: `kf.zoom = min(kf.zoom * 1.15, 3.0)` where kf.zoom > 1.0.
MobileZoom(kfs) ==
    [k \in DOMAIN kfs |->
        IF kfs[k].zoom > 10000
          THEN [kfs[k] EXCEPT !.zoom = Min((kfs[k].zoom * 115) \div 100, 30000)]
          ELSE kfs[k]]

\* Variant: segments of no duration kept.
SegmentKeptWhenEmpty(t0, t1) == t1 - t0 >= 0
\* `if seg_dur <= 0: continue`
SegmentKept(t0, t1) == t1 - t0 > 0

\* Variant: a segment static only between identical keyframes.
IsStaticExact(prev, curr) ==
    prev.zoom = curr.zoom /\ prev.cx = curr.cx /\ prev.cy = curr.cy
\* abs(prev.zoom - curr.zoom) < 0.001 and abs(prev.cx - curr.cx) < 1 and
\* abs(prev.cy - curr.cy) < 1
IsStatic(prev, curr) ==
    /\ Abs(prev.zoom - curr.zoom) < ZoomEpsilon
    /\ Abs(prev.cx - curr.cx) < CenterEpsilon
    /\ Abs(prev.cy - curr.cy) < CenterEpsilon

\* _build_zoom_filter_complex: the segments of the filter graph, one for each
\* pair of consecutive keyframes it keeps; << >> stands for the empty string.
RECURSIVE ZoomSegments(_, _)
ZoomSegments(kfs, i) ==
    IF i > Len(kfs) THEN << >>
    ELSE (IF SegmentKept(kfs[i - 1].time, kfs[i].time)
            THEN << [index |-> i - 1, start |-> kfs[i - 1].time, end |-> kfs[i].time,
                     smoothstep |-> ~IsStatic(kfs[i - 1], kfs[i])] >>
            ELSE << >>)
         \o ZoomSegments(kfs, i + 1)
BuildZoomFilterComplex(kfs) == IF Len(kfs) < 2 THEN << >> ELSE ZoomSegments(kfs, 2)

\* apply_zoom_pan: what the call did.  ext_ok: the ffmpeg run, the copy over
\* the input file and the ffprobe of the result succeed.
ApplyZoomPan(kfs, ext_ok) ==
    LET fc_expr == IF Len(kfs) < 2 THEN << >> ELSE BuildZoomFilterComplex(kfs)
        noop == fc_expr = << >>
    IN [returned |-> IF noop \/ ext_ok THEN "video_path" ELSE "raised",
        filter |-> fc_expr,
        transcoded |-> ~noop,
        rewritten |-> ~noop /\ ext_ok]

\* Length of the zoomed file: the concatenation of the trimmed segments.
ZoomedLength(fc_expr, total_duration) ==
    SumSeq([k \in DOMAIN fc_expr |->
              Max(0, Min(fc_expr[k].end, total_duration)
                     - Min(fc_expr[k].start, total_duration))])

\* What _maybe_apply_zoom does with the camera path of the assembled file.
ZoomWith(zoom_mode, want, matched, ext_ok) ==
    \E path \in { BuildCameraPath(results, want, matched, final_duration) } :
      \E kfs \in { IF zoom_mode = "mobile" THEN MobileZoom(path) ELSE path } :
        \E call \in { ApplyZoomPan(kfs, ext_ok) } :
          /\ phases' = PhaseDone("camera", call.returned # "raised")
          /\ keyframes' = kfs
          /\ zoom_log' = << call >>
          /\ final_duration' = IF call.rewritten
                                 THEN ZoomedLength(call.filter, final_duration)
                                 ELSE final_duration
          /\ IF call.returned # "raised" THEN pc' = PhaseAfter("camera") /\ rc' = rc
                                         ELSE MainReturns(1)

\* _maybe_apply_zoom: a no-op with --zoom off.  probe_ok: ffprobe_duration of
\* the assembled file succeeds; want: what each result's step asks for;
\* matched: the ids of the results are those of the step definitions.
MaybeApplyZoom ==
    /\ pc = "camera"
    /\ \E zoom_mode \in ZoomModes, probe_ok \in BOOLEAN :
         IF zoom_mode = "off"
           THEN /\ phases' = PhaseDone("camera", TRUE)
                /\ pc' = PhaseAfter("camera")
                /\ rc' = rc
                /\ UNCHANGED << zoomVars, final_duration >>
           ELSE IF ~probe_ok
           THEN /\ phases' = PhaseDone("camera", FALSE)
                /\ MainReturns(1)
                /\ UNCHANGED << zoomVars, final_duration >>
           ELSE \E ext_ok \in BOOLEAN :
                  \/ ZoomWith(zoom_mode, [i \in DOMAIN results |-> FocusPreset("full")],
                              FALSE, ext_ok)
                  \/ \E want \in [DOMAIN results -> StepFocusChoices] :
                       ZoomWith(zoom_mode, want, TRUE, ext_ok)
    /\ UNCHANGED << callVars, loadVars, mainVars, step_audio, captureVars, final_file,
                    duration_check >>

\* _maybe_nvenc_reencode: returns at once with the local backend; with
\* colab-nvenc the import of create_nvenc_dispatcher_from_args, which
\* colab_dispatcher.py does not define, raises.
MaybeNvencReencode ==
    /\ pc = "reencode"
    /\ \E encode_backend \in EncodeBackends :
         LET ok == encode_backend = "local"
         IN /\ phases' = PhaseDone("reencode", ok)
            /\ IF ok THEN pc' = PhaseAfter("reencode") /\ rc' = rc ELSE MainReturns(1)
    /\ keyframes' = << >>
    /\ zoom_log' = << >>
    /\ UNCHANGED << callVars, loadVars, mainVars, step_audio, captureVars, outputVars >>

\* apply_overlays: intro/outro clips of the given lengths (0: not configured).
ApplyOverlays ==
    /\ pc = "overlays"
    /\ \E intro \in OverlayDurations, outro \in OverlayDurations, ext_ok \in BOOLEAN :
         LET ok == (intro = 0 /\ outro = 0) \/ ext_ok
         IN /\ phases' = PhaseDone("overlays", ok)
            /\ IF ok
                 THEN /\ pc' = PhaseAfter("overlays")
                      /\ rc' = rc
                      /\ final_duration' = final_duration + intro + outro
                 ELSE MainReturns(1) /\ final_duration' = final_duration
    /\ UNCHANGED << callVars, loadVars, zoomVars, mainVars, step_audio, captureVars, final_file, duration_check >>

\* Variant: a duration above the target already fails the check.
DurationVerdictAgainstTarget(duration, target, maximum) ==
    IF duration > target THEN "too_long" ELSE "ok"
\* print_report: `if duration > maximum: raise`, `if duration > target: log`.
DurationVerdict(duration, target, maximum) ==
    IF duration > maximum THEN "too_long"
    ELSE IF duration > target THEN "warning"
    ELSE "ok"

\* print_report and main's `return 0`.  ext_ok: stat and ffprobe of the final
\* file succeed.  Without a final file the duration is not looked at.
PrintReport ==
    /\ pc = "report"
    /\ \E ext_ok \in BOOLEAN :
         LET verdict == IF ~final_file THEN "none"
                        ELSE IF ~ext_ok THEN "probe_failed"
                        ELSE DurationVerdict(final_duration, target_duration,
                                             max_duration)
             raised == verdict \in { "probe_failed", "too_long" }
         IN /\ phases' = PhaseDone("report", ~raised)
            /\ duration_check' = verdict
            /\ MainReturns(IF raised THEN 1 ELSE 0)
    /\ UNCHANGED << callVars, loadVars, zoomVars, mainVars, step_audio, captureVars, final_file, final_duration >>

(* --------------------------- specification ----------------------------- *)
Next ==
    \/ LoadTourSpec
    \/ RunAudio
    \/ RunCapturePhase
    \/ IndLaunch
    \/ IndStep
    \/ IndAttempt
    \/ IndRelaunch
    \/ IndFinally
    \/ RunContinuousCapture
    \/ ContLaunch
    \/ ContOpen
    \/ ContStep
    \/ ContFinish
    \/ ContFinally
    \/ CaptureReturn
    \/ AssembleIndependent
    \/ AssembleContinuous
    \/ MaybeApplyZoom
    \/ MaybeNvencReencode
    \/ ApplyOverlays
    \/ PrintReport

Spec == Init /\ [][Next]_vars

(* ============================== claims ================================= *)
InIndependent == mode = "independent" /\ ~dry_run
InContinuous == mode = "continuous" /\ ~dry_run
PhaseNames == { phases[k].name : k \in DOMAIN phases }
Failures(i) ==
    Cardinality({ k \in DOMAIN step_log :
                    step_log[k].idx = i /\ step_log[k].outcome = "failed" })
Successes(i) ==
    Cardinality({ k \in DOMAIN step_log :
                    step_log[k].idx = i /\ step_log[k].outcome = "ok" })

C2_ExhaustionAborts ==
    InIndependent =>
        \A i \in 1..Len(steps) :
            (max_retries >= 0 /\ Failures(i) = max_retries + 1) =>
                /\ exc
                /\ pc \in { "ind_finally", "capture_return", "exit" }
                /\ \A k \in DOMAIN step_log : step_log[k].idx <= i
                /\ "assemble" \notin PhaseNames
                /\ rc # 0
                /\ pc = "exit" => rc = 1

\* C2 witness: main has returned 1 after the first of several steps used up
\* a retry budget of at least one retry.
C2_Witness ==
    /\ InIndependent
    /\ pc = "exit"
    /\ rc = 1
    /\ max_retries >= 1
    /\ Len(steps) > 1
    /\ Failures(1) = max_retries + 1

CaptureOk ==
    \E k \in DOMAIN phases :
        phases[k].name = "capture" /\ phases[k].status = "ok"
AudioTotal == SumDurations(step_audio, DOMAIN step_audio)

\* C3: whichever backend produced the step audio, a total audio duration
\* above target_duration makes the audio phase fail, so that no capture
\* function is ever invoked with such a mapping.  (Stated as the claim reads;
\* the Colab backends violate it.)
C3_OverBudgetNeverCaptures ==
    AudioTotal > target_duration =>
        /\ "capture" \notin PhaseNames
        /\ pc \notin { "capture", "assemble", "camera", "reencode",
                       "overlays", "report" }

\* C4: in continuous capture a failure of navigation, assertions or actions
\* does not abort the run: the step gets a StepResult with success = FALSE
\* and attempt_count = 1, the loop moves on to the next step, and a returned
\* list has exactly one StepResult per step, in spec order.
C4_ContinuousKeepsGoing ==
    InContinuous =>
        /\ \A k \in DOMAIN step_log :
              step_log[k].outcome \in { "ok", "failed" } =>
                  /\ step_log[k].idx = k
                  /\ k \in DOMAIN results
                  /\ results[k].step_id = steps[k]
                  /\ results[k].attempt_count = 1
                  /\ results[k].success = (step_log[k].outcome = "ok")
        /\ \A k \in DOMAIN step_log :
              (step_log[k].outcome = "failed" /\ k = Len(step_log)) =>
                  /\ idx = k + 1
                  /\ k < Len(steps) => pc = "cont_step"
        /\ CaptureOk =>
              /\ Len(results) = Len(steps)
              /\ \A k \in DOMAIN results : results[k].step_id = steps[k]

\* C4 witness: the capture function returned normally although the first of
\* its steps failed, and the step after it succeeded.
C4_Witness ==
    /\ InContinuous
    /\ CaptureOk
    /\ Len(results) >= 2
    /\ ~results[1].success
    /\ results[1].attempt_count = 1
    /\ results[2].success

\* C5: the StepResults of continuous capture satisfy
\* video_offset[i] <= step_end_offset[i] <= video_offset[i+1] for every i,
\* and the first video_offset is not negative.
C5_OffsetsOrdered ==
    InContinuous =>
        \A k \in DOMAIN results :
            /\ k = 1 => results[k].video_offset >= 0
            /\ results[k].video_offset <= results[k].step_end_offset
            /\ (k + 1) \in DOMAIN results =>
                  results[k].step_end_offset <= results[k + 1].video_offset

\* C5 witness: continuous capture returned two results with the second step
\* starting strictly after the first one's hold ended.
C5_Witness ==
    /\ InContinuous
    /\ CaptureOk
    /\ Len(results) >= 2
    /\ results[1].video_offset > 0
    /\ results[1].step_end_offset < results[2].video_offset
    /\ results[2].video_offset < results[2].step_end_offset

\* A URL without its trailing "/" characters: its longest prefix that is
\* empty or does not end in "/".
WithoutTrailingSlashes(url) ==
    LET n == CHOOSE m \in 0..Len(url) :
                 /\ m = 0 \/ url[m] # "/"
                 /\ \A j \in (m + 1)..Len(url) : url[j] = "/"
    IN SubSeq(url, 1, n)

\* C6 as stated: in continuous capture page.goto is issued for a step
\* exactly when its target URL differs from the URL the page shows when the
\* step begins.
C6_NavigateIffUrlsDiffer ==
    (InContinuous /\ last_nav.idx > 0) =>
        (last_nav.goto <=> last_nav.current_url # last_nav.target_url)

\* C6 amended: the first step always issues page.goto; every later step
\* issues it exactly when the two URLs differ after their trailing "/"
\* characters have been removed.
C6_NavigateIffStrippedUrlsDiffer ==
    (InContinuous /\ last_nav.idx > 0) =>
        (last_nav.goto <=>
            \/ last_nav.idx = 1
            \/ WithoutTrailingSlashes(last_nav.current_url)
                   # WithoutTrailingSlashes(last_nav.target_url))

\* C6 witness: a later step reused the page without navigation although
\* its target URL and the page's URL differ in a trailing "/".
C6_Witness ==
    /\ InContinuous
    /\ last_nav.idx > 1
    /\ ~last_nav.goto
    /\ last_nav.current_url # last_nav.target_url

(* assemble_video called on any result list: main at the assembly call in   *)
(* independent mode, with a list of up to MaxSteps results of any shape.    *)
AnyResults(n) ==
    { [i \in 1..n |-> StepResult(i, a[i], ok[i], IF has_clip[i] THEN i ELSE NoneClip,
                                 d[i], 0, NoOffset)] :
        a \in [1..n -> {1}], ok \in [1..n -> BOOLEAN],
        has_clip \in [1..n -> BOOLEAN], d \in [1..n -> AudioDurations] }

InitAssemble ==
    /\ pc = "assemble"
    /\ rc = 0 - 1
    /\ phases = << [name |-> "validate", status |-> "ok"],
                   [name |-> "audio", status |-> "ok"],
                   [name |-> "capture", status |-> "ok"] >>
    /\ dry_run = FALSE
    /\ mode = "independent"
    /\ missing = NoKey
    /\ validation = [type |-> "none", kind |-> "ok", names |-> {}, id |-> 0]
    /\ target_duration \in { t \in TargetDurations : t > 0 }
    /\ max_duration \in { m \in MaxDurations : m >= target_duration }
    /\ \E n \in 0..MaxSteps :
         /\ steps = [i \in 1..n |-> i]
         /\ narration = [i \in 1..n |-> << "t" >>]
         /\ time_budget = [i \in 1..n |-> << target_duration, n >>]
         /\ results \in AnyResults(n)
         /\ step_audio = [i \in 1..n |-> results[i].audio_duration]
         /\ clips = { results[i].clip_path : i \in 1..n } \ {NoneClip}
    /\ max_retries = 0
    /\ idx = Len(steps) + 1
    /\ attempts = 0
    /\ exc = FALSE
    /\ browser = 0
    /\ n_browsers = 0
    /\ open_browsers = {}
    /\ context = 0
    /\ page = FALSE
    /\ n_contexts = 0
    /\ open_contexts = {}
    /\ page_url = BlankURL
    /\ now = 0
    /\ recording_started = 0
    /\ last_nav = NoNav
    /\ step_log = << >>
    /\ final_file = FALSE
    /\ final_duration = 0
    /\ duration_check = "none"
    /\ keyframes = << >>
    /\ zoom_log = << >>
    /\ call_args = NoCall
    /\ call_result = NoCall

NextAssemble == AssembleIndependent

SpecAssemble == InitAssemble /\ [][NextAssemble]_vars

AssembleCalled ==
    phases[Len(phases)].name = "assemble"

\* C7: assemble_video on a result list with any success = FALSE raises and
\* writes no final file; a final file exists only if every result has
\* success = TRUE.
C7_AssembleRequiresAllSuccess ==
    /\ final_file => \A i \in DOMAIN results : results[i].success
    /\ (AssembleCalled /\ \E i \in DOMAIN results : ~results[i].success) =>
          /\ phases[Len(phases)].status = "error"
          /\ ~final_file
          /\ pc = "exit"
          /\ rc = 1

\* C7 witness: assemble_video has raised on a list that holds a failed
\* result next to a successful one, both with a clip.
C7_Witness ==
    /\ AssembleCalled
    /\ ~final_file
    /\ \E i, j \in DOMAIN results :
          /\ ~results[i].success /\ results[i].clip_path # NoneClip
          /\ results[j].success /\ results[j].clip_path # NoneClip

\* C8: with dry-run no browser and no recording context is ever launched,
\* a returned result list has one StepResult per step with success = TRUE,
\* attempt_count = 0 and clip_path = None, and neither assembly nor the
\* camera-path step nor any other post-step runs afterwards.
C8_DryRunTouchesNothing ==
    dry_run =>
        /\ n_browsers = 0
        /\ n_contexts = 0
        /\ PhaseNames \cap { "assemble", "camera", "reencode", "overlays" } = {}
        /\ pc \notin { "assemble", "camera", "reencode", "overlays" }
        /\ ~final_file
        /\ (CaptureOk \/ (pc = "capture_return" /\ ~exc)) =>
              /\ Len(results) = Len(steps)
              /\ \A i \in DOMAIN results :
                    /\ results[i].step_id = steps[i]
                    /\ results[i].success
                    /\ results[i].attempt_count = 0
                    /\ results[i].clip_path = NoneClip

\* C8 witness: a dry run of several steps has gone through capture and
\* returned 0.
C8_Witness ==
    /\ dry_run
    /\ CaptureOk
    /\ Len(results) >= 2
    /\ pc = "exit"
    /\ rc = 0

PhaseRank(name) ==
    CASE name = "validate" -> 1
      [] name = "audio"    -> 2
      [] name = "capture"  -> 3
      [] name = "assemble" -> 4
      [] name = "camera"   -> 5
      [] name = "reencode" -> 6
      [] name = "overlays" -> 7
      [] name = "report"   -> 8

\* C9: phases start in the order validate, audio, capture, assemble,
\* camera-path, (post-steps,) report; a phase starts only when the phase
\* started before it has completed without error; within capture the steps
\* are taken in spec order, one at a time.
C9_PhasesAndStepsInOrder ==
    /\ phases # << >> => phases[1].name = "validate"
    /\ \A k \in DOMAIN phases :
          k < Len(phases) =>
              /\ phases[k].status = "ok"
              /\ PhaseRank(phases[k].name) < PhaseRank(phases[k + 1].name)
              /\ ~dry_run => PhaseRank(phases[k + 1].name) = PhaseRank(phases[k].name) + 1
    /\ step_log # << >> => step_log[1].idx = 1
    /\ \A k \in DOMAIN step_log :
          /\ step_log[k].idx \in 1..Len(steps)
          /\ k < Len(step_log) =>
                /\ step_log[k + 1].idx \in { step_log[k].idx, step_log[k].idx + 1 }
                /\ step_log[k].outcome = "ok" => step_log[k + 1].idx = step_log[k].idx + 1

\* C9 witness: a full run of several steps through all phases returned 0.
C9_Witness ==
    /\ ~dry_run
    /\ pc = "exit"
    /\ rc = 0
    /\ Len(phases) = 8
    /\ Len(step_log) >= 2
    /\ step_log[Len(step_log)].idx = 2

InCaptureFunction ==
    pc \in { "ind_launch", "ind_step", "ind_attempt", "ind_relaunch", "ind_finally",
             "cont_launch", "cont_open", "cont_step", "cont_finally" }

\* C10: once a capture function has returned or raised, every browser and
\* every recording context it opened has been closed; capture_step_video
\* leaves no context open between the attempts of run_capture_phase.
C10_CaptureClosesEverything ==
    /\ ~InCaptureFunction => open_browsers = {} /\ open_contexts = {}
    /\ pc \in { "ind_step", "ind_attempt", "ind_relaunch", "ind_finally" } =>
          open_contexts = {}

\* C10 witness: a capture function has raised after it had opened a browser
\* and a recording context.
C10_Witness ==
    /\ pc = "capture_return"
    /\ exc
    /\ n_browsers > 0
    /\ n_contexts > 0

LastPhase == phases[Len(phases)]
ReportRan == phases # << >> /\ LastPhase.name = "report"

\* C11: main returns 0 if and only if every phase, the report included,
\* completed without raising; an error raised in any phase makes main
\* return 1.
C11_ExitCodeReflectsPhases ==
    /\ rc \in { 0 - 1, 0, 1 }
    /\ pc = "exit" <=> rc \in { 0, 1 }
    /\ rc = 0 <=>
          /\ ReportRan
          /\ \A k \in DOMAIN phases : phases[k].status = "ok"
    /\ (\E k \in DOMAIN phases : phases[k].status = "error") <=> rc = 1

\* C11 witness: the report phase itself raised at the end of an otherwise
\* complete run, and main returned 1.
C11_Witness ==
    /\ ReportRan
    /\ Len(phases) = 8
    /\ LastPhase.status = "error"
    /\ rc = 1

\* C12: when print_report has measured the final file's duration, the run
\* fails exactly when that duration exceeds max_duration; a duration above
\* target_duration and not above max_duration gives only a warning, and the
\* run succeeds.
C12_DurationCheck ==
    (ReportRan /\ final_file /\ duration_check # "probe_failed") =>
        /\ rc = 1 <=> final_duration > max_duration
        /\ rc = 0 <=> final_duration <= max_duration
        /\ duration_check = "too_long" <=> final_duration > max_duration
        /\ duration_check = "warning" <=>
              (final_duration > target_duration /\ final_duration <= max_duration)

\* C12 witness: a final file exactly as long as max_duration, longer than
\* target_duration, passed the check with a warning and main returned 0.
C12_Witness ==
    /\ ReportRan
    /\ final_file
    /\ final_duration = max_duration
    /\ final_duration > target_duration
    /\ duration_check = "warning"
    /\ rc = 0

Loaded == validation.type # "pending"
SharedIds == { steps[i] : i \in { j \in DOMAIN steps :
                                    \E k \in DOMAIN steps : k # j /\ steps[k] = steps[j] } }

C14_ReturnedSpecHasNarration ==
    validation.kind = "ok" =>
        \A i \in DOMAIN narration : narration[i] # << >>

\* C15 as stated: a spec that lacks a required top-level key or a required
\* sub-key makes load_tour_spec fail with a TourError whose message names
\* the missing key.
C15_MissingKeyIsTourError ==
    (Loaded /\ validation.kind # "file" /\ missing # NoKey) =>
        /\ validation.type = "TourError"
        /\ (IF missing.key = "" THEN missing.section ELSE missing.key)
               \in validation.names

\* C16: every step of a spec that passed validation has
\* time_budget_seconds = target_duration / number of steps.
C16_TimeBudget ==
    validation.kind = "ok" =>
        /\ DOMAIN time_budget = DOMAIN steps
        /\ \A i \in DOMAIN time_budget :
              /\ time_budget[i][2] # 0
              /\ time_budget[i][1] * Len(steps) = target_duration * time_budget[i][2]

\* C16 witness: a spec of several steps passed validation and got its
\* budgets.
C16_Witness ==
    /\ validation.kind = "ok"
    /\ Len(steps) > 1
    /\ Len(time_budget) = Len(steps)
    /\ target_duration > 0


(* apply_zoom_pan and _build_zoom_filter_complex on arbitrary keyframe lists: *)
(* every list of at most MaxKeyframes keyframes over times that repeat and   *)
(* go backwards and over zooms and centers that differ by less and by more   *)
(* than the thresholds of the static test; the call is made twice on a file  *)
(* of 3.0 s.                                                                 *)
MaxKeyframes == 2
AnyKeyframes ==
    { Keyframe(t, cx, cy, z, ZoomTransitionMs, "full", 0) :
        t \in {0, 10}, cx \in {9600, 9605, 7800}, cy \in {5400, 5405},
        z \in {10000, 10005, 22000} }
AnyKeyframeLists ==
    UNION { [1..n -> AnyKeyframes] : n \in 0..MaxKeyframes }

InitZoom ==
    /\ pc = "apply_zoom_pan"
    /\ rc = 0 - 1
    /\ phases = << [name |-> "validate", status |-> "ok"],
                   [name |-> "audio", status |-> "ok"],
                   [name |-> "capture", status |-> "ok"],
                   [name |-> "assemble", status |-> "ok"] >>
    /\ dry_run = FALSE
    /\ mode = "independent"
    /\ missing = NoKey
    /\ validation = [type |-> "none", kind |-> "ok", names |-> {}, id |-> 0]
    /\ target_duration \in { t \in TargetDurations : t > 0 }
    /\ max_duration \in { m \in MaxDurations : m >= target_duration }
    /\ steps = << >>
    /\ narration = << >>
    /\ time_budget = << >>
    /\ results = << >>
    /\ step_audio = << >>
    /\ clips = {}
    /\ max_retries = 0
    /\ idx = 1
    /\ attempts = 0
    /\ exc = FALSE
    /\ browser = 0
    /\ n_browsers = 0
    /\ open_browsers = {}
    /\ context = 0
    /\ page = FALSE
    /\ n_contexts = 0
    /\ open_contexts = {}
    /\ page_url = BlankURL
    /\ now = 0
    /\ recording_started = 0
    /\ last_nav = NoNav
    /\ step_log = << >>
    /\ final_file = TRUE
    /\ final_duration = 30
    /\ duration_check = "none"
    /\ keyframes \in AnyKeyframeLists
    /\ zoom_log = << >>
    /\ call_args = NoCall
    /\ call_result = NoCall

\* apply_zoom_pan(video_path, keyframes, ...), called on the file it returned.
ApplyZoomPanCall ==
    /\ pc = "apply_zoom_pan"
    /\ Len(zoom_log) < 2
    /\ \E ext_ok \in BOOLEAN :
         LET call == ApplyZoomPan(keyframes, ext_ok)
         IN /\ zoom_log' = Append(zoom_log, call)
            /\ final_duration' = IF call.rewritten
                                   THEN ZoomedLength(call.filter, final_duration)
                                   ELSE final_duration
    /\ UNCHANGED << callVars, loadVars, mainVars, step_audio, captureVars, final_file,
                    duration_check, keyframes, pc, rc, phases >>

NextZoom == ApplyZoomPanCall

SpecZoom == InitZoom /\ [][NextZoom]_vars

NoSegment(kfs) ==
    Len(kfs) < 2 \/ \A i \in 2..Len(kfs) : kfs[i].time <= kfs[i - 1].time

NoopCall ==
    [returned |-> "video_path", filter |-> << >>, transcoded |-> FALSE,
     rewritten |-> FALSE]

\* C17: apply_zoom_pan called with no keyframe, with one keyframe, or with
\* keyframes none of whose consecutive pairs spans a positive duration,
\* returns the path it was given, runs no transcode and leaves the file as it
\* was; a second call on the result does the same.
C17_NoSegmentIsNoop ==
    [][(pc = "apply_zoom_pan" /\ NoSegment(keyframes))
         => /\ UNCHANGED << final_file, final_duration >>
            /\ \A k \in DOMAIN zoom_log' : zoom_log'[k] = NoopCall]_vars

C17_Witness ==
    /\ pc = "apply_zoom_pan"
    /\ Len(keyframes) = 2
    /\ keyframes[2].time <= keyframes[1].time
    /\ Len(zoom_log) = 2
    /\ zoom_log[1] = zoom_log[2]
    /\ final_duration = 30

Differ(prev, curr) ==
    prev.zoom # curr.zoom \/ prev.cx # curr.cx \/ prev.cy # curr.cy

DifferVisibly(prev, curr) ==
    \/ Abs(prev.zoom - curr.zoom) >= ZoomEpsilon
    \/ Abs(prev.cx - curr.cx) >= CenterEpsilon
    \/ Abs(prev.cy - curr.cy) >= CenterEpsilon

\* C18 as stated: a segment of the filter has smoothstep easing exactly when
\* its endpoint keyframes differ in zoom or in center.
C18_SmoothstepIffEndpointsDiffer ==
    pc = "apply_zoom_pan" =>
        \A k \in DOMAIN zoom_log : \A j \in DOMAIN zoom_log[k].filter :
            LET seg == zoom_log[k].filter[j]
            IN seg.smoothstep <=> Differ(keyframes[seg.index], keyframes[seg.index + 1])

\* C18: a segment of the filter has smoothstep easing exactly when its
\* endpoint keyframes differ by at least 0.001 in zoom or by at least one
\* pixel in a coordinate of the center; closer endpoints give a static crop.
C18_SmoothstepIffEndpointsDifferVisibly ==
    pc = "apply_zoom_pan" =>
        \A k \in DOMAIN zoom_log : \A j \in DOMAIN zoom_log[k].filter :
            LET seg == zoom_log[k].filter[j]
            IN seg.smoothstep
                 <=> DifferVisibly(keyframes[seg.index], keyframes[seg.index + 1])

C18_Witness ==
    /\ pc = "apply_zoom_pan"
    /\ Len(keyframes) = 2
    /\ zoom_log # << >>
    /\ Len(zoom_log[1].filter) = 1
    /\ ~zoom_log[1].filter[1].smoothstep
    /\ keyframes[1].zoom # keyframes[2].zoom
    /\ keyframes[1].cx # keyframes[2].cx

CameraPathBuilt ==
    pc # "apply_zoom_pan" /\ keyframes # << >>

\* C19: the keyframes build_camera_path returns for the results of either
\* capture mode are in non-decreasing order of time, and the first one is the
\* full frame (center 960,540, zoom 1.0) at time 0.
C19_KeyframesOrdered ==
    CameraPathBuilt =>
        /\ keyframes[1].time = 0
        /\ keyframes[1].cx = 9600 /\ keyframes[1].cy = 5400
        /\ keyframes[1].zoom = 10000
        /\ \A k \in 1..(Len(keyframes) - 1) : keyframes[k].time <= keyframes[k + 1].time

KeyframesOf(i) == { k \in DOMAIN keyframes : keyframes[k].step = i }
LastKeyframeOf(i) == CHOOSE k \in KeyframesOf(i) : \A l \in KeyframesOf(i) : l <= k
FocusOf(i) == IF i = 0 THEN "full" ELSE keyframes[LastKeyframeOf(i)].focus
IsFullFrameAt(kf, time) ==
    kf.time = time /\ kf.cx = 9600 /\ kf.cy = 5400 /\ kf.zoom = 10000
ZoomedIn(kf) == kf.focus # "full"

pipelineVars == << rc, phases, loadVars, zoomVars, mainVars, step_audio, captureVars,
                   outputVars >>
IdlePipeline ==
    /\ rc = 0 - 1
    /\ phases = << >>
    /\ dry_run = FALSE
    /\ mode = "independent"
    /\ missing = NoKey
    /\ validation = NotLoaded
    /\ target_duration = 0
    /\ max_duration = 0
    /\ steps = << >>
    /\ narration = << >>
    /\ time_budget = << >>
    /\ results = << >>
    /\ step_audio = << >>
    /\ clips = {}
    /\ max_retries = 0
    /\ idx = 1
    /\ attempts = 0
    /\ exc = FALSE
    /\ browser = 0
    /\ n_browsers = 0
    /\ open_browsers = {}
    /\ context = 0
    /\ page = FALSE
    /\ n_contexts = 0
    /\ open_contexts = {}
    /\ page_url = BlankURL
    /\ now = 0
    /\ recording_started = 0
    /\ last_nav = NoNav
    /\ step_log = << >>
    /\ final_file = FALSE
    /\ final_duration = 0
    /\ duration_check = "none"
    /\ keyframes = << >>
    /\ zoom_log = << >>

\* _dominant_focus on every action list of at most MaxActions actions.
MaxActions == 3
ActionLists == UNION { [1..n -> ActionTypes] : n \in 0..MaxActions }

InitFocus ==
    /\ IdlePipeline
    /\ pc = "_dominant_focus"
    /\ call_args \in { [function |-> "_dominant_focus", actions |-> a] : a \in ActionLists }
    /\ call_result = NoCall

DominantFocusCall ==
    /\ pc = "_dominant_focus"
    /\ call_result = NoCall
    /\ call_result' = [function |-> "_dominant_focus",
                       focus |-> DominantFocus(call_args.actions)]
    /\ UNCHANGED << pc, call_args, pipelineVars >>

NextFocus == DominantFocusCall

SpecFocus == InitFocus /\ [][NextFocus]_vars

FocusReturned == pc = "_dominant_focus" /\ call_result # NoCall
MappedTo(focus) ==
    { k \in DOMAIN call_args.actions :
        \/ focus = "editor" /\ call_args.actions[k] \in EditorActions
        \/ focus = "terminal" /\ call_args.actions[k] = "terminal_type"
        \/ focus = "full" /\ call_args.actions[k] \in FullActions }
MinOf(S) == CHOOSE k \in S : \A l \in S : k <= l

\* C21 as stated: _dominant_focus returns "terminal" if an action maps to
\* terminal, else "editor" if no action maps to a focus, else the focus that
\* strictly more actions map to than to any other focus.
C21_StrictMajority ==
    FocusReturned =>
        LET r == call_result.focus
        IN IF MappedTo("terminal") # {} THEN r = "terminal"
           ELSE IF MappedTo("editor") = {} /\ MappedTo("full") = {} THEN r = "editor"
           ELSE \A g \in Foci \ {r} : Cardinality(MappedTo(r)) > Cardinality(MappedTo(g))

\* C21: _dominant_focus returns "terminal" if an action maps to terminal,
\* else "editor" if no action maps to a focus, else a focus that at least as
\* many actions map to as to any other, and among foci of equal count the one
\* whose first action comes first in the list.
C21_MajorityFirstWins ==
    FocusReturned =>
        LET r == call_result.focus
        IN IF MappedTo("terminal") # {} THEN r = "terminal"
           ELSE IF MappedTo("editor") = {} /\ MappedTo("full") = {} THEN r = "editor"
           ELSE /\ MappedTo(r) # {}
                /\ \A g \in Foci \ {r} :
                     \/ Cardinality(MappedTo(r)) > Cardinality(MappedTo(g))
                     \/ /\ Cardinality(MappedTo(r)) = Cardinality(MappedTo(g))
                        /\ MinOf(MappedTo(r)) < MinOf(MappedTo(g))

C21_Witness ==
    /\ FocusReturned
    /\ call_args.actions = << "wait_for_load", "type_text" >>
    /\ call_result.focus = "full"

ContinuousResults == mode = "continuous" /\ ~dry_run /\ results # << >>

\* C22: in continuous mode every step, successful or failed, holds for
\* audio_duration + 1.0 s before the next step's video_offset is read, so
\* the narration intervals [video_offset + 1.0, video_offset + 1.0 +
\* audio_duration] of two distinct steps never overlap.
C22_NarrationsNeverOverlap ==
    ContinuousResults =>
        /\ \A i \in DOMAIN results : i + 1 \in DOMAIN results =>
              results[i + 1].video_offset
                  >= results[i].video_offset + results[i].audio_duration + 10
        /\ \A i, j \in DOMAIN results : i < j =>
              NarrationEnd(results[i]) < NarrationStart(results[j])

C22_Witness ==
    /\ ContinuousResults
    /\ Len(results) = 2
    /\ ~results[1].success
    /\ results[2].video_offset = results[1].video_offset + results[1].audio_duration + 10
    /\ final_file

JustAssembled == pc = "camera" /\ LastPhase.name = "assemble" /\ LastPhase.status = "ok"

\* C23: the file independent-mode assembly writes is the concatenation of
\* the muxed clips of the results in step order (one for every step unless
\* max_retries_per_step is negative), cut to at most target_duration; the
\* file continuous-mode assembly writes lasts at most max_duration.
C23_AssembledLength ==
    JustAssembled =>
        /\ final_file
        /\ mode = "independent" =>
              /\ final_duration <= target_duration
              /\ AssembleVideo(results, TRUE).per_step_muxed
                    = [i \in DOMAIN results |-> steps[i]]
              /\ max_retries >= 0 => Len(results) = Len(steps)
        /\ mode = "continuous" => final_duration <= max_duration

C23_Witness ==
    /\ JustAssembled
    /\ mode = "independent"
    /\ Len(results) = 2
    /\ ClipsLength(results) > target_duration
    /\ final_duration = target_duration

\* mux_audio_with_offset on clips and narrations of whole and of fractional
\* milliseconds, shorter and longer than each other.
MuxDurations == { s * 10000 + f : s \in 1..4, f \in {0, 4, 6} }

InitMux ==
    /\ IdlePipeline
    /\ pc = "mux_audio_with_offset"
    /\ call_args \in { [function |-> "mux_audio_with_offset", base_duration |-> b,
                        audio_duration |-> a] : b \in MuxDurations, a \in MuxDurations }
    /\ call_result = NoCall

MuxAudioWithOffsetCall ==
    /\ pc = "mux_audio_with_offset"
    /\ call_result = NoCall
    /\ call_result' = MuxAudioWithOffset(call_args.base_duration, call_args.audio_duration)
    /\ UNCHANGED << pc, call_args, pipelineVars >>

NextMux == MuxAudioWithOffsetCall

SpecMux == InitMux /\ [][NextMux]_vars

\* C24: mux_audio_with_offset pads the video by
\* max(0, audio_duration + 1.0 - clip_duration), and the muxed clip holds
\* the whole narration after its 1.0 s lead-in.
C24_WholeNarrationKept ==
    (pc = "mux_audio_with_offset" /\ call_result # NoCall) =>
        /\ call_result.padding
             = (IF call_args.audio_duration + 10000 > call_args.base_duration
                  THEN call_args.audio_duration + 10000 - call_args.base_duration
                  ELSE 0)
        /\ call_result.narration = call_args.audio_duration

(* The two-step example: narrations of 3.0 s and 4.0 s, target 10 s, taken  *)
(* through the audio phase and an independent capture and assembly.         *)
ExampleDurations == { 30, 40 }

InitExample ==
    /\ pc = "audio"
    /\ rc = 0 - 1
    /\ phases = << [name |-> "validate", status |-> "ok"] >>
    /\ dry_run = FALSE
    /\ mode = "independent"
    /\ missing = NoKey
    /\ validation = [type |-> "none", kind |-> "ok", names |-> {}, id |-> 0]
    /\ target_duration = 100
    /\ max_duration = 100
    /\ steps = << 1, 2 >>
    /\ narration = << << "t" >>, << "t" >> >>
    /\ time_budget = << << 100, 2 >>, << 100, 2 >> >>
    /\ results = << >>
    /\ step_audio = EmptyAudio
    /\ clips = {}
    /\ max_retries = 0
    /\ idx = 1
    /\ attempts = 0
    /\ exc = FALSE
    /\ browser = 0
    /\ n_browsers = 0
    /\ open_browsers = {}
    /\ context = 0
    /\ page = FALSE
    /\ n_contexts = 0
    /\ open_contexts = {}
    /\ page_url = BlankURL
    /\ now = 0
    /\ recording_started = 0
    /\ last_nav = NoNav
    /\ step_log = << >>
    /\ final_file = FALSE
    /\ final_duration = 0
    /\ duration_check = "none"
    /\ keyframes = << >>
    /\ zoom_log = << >>
    /\ call_args = NoCall
    /\ call_result = NoCall

RunAudioExample == RunAudioWith(ExampleDurations)

NextExample ==
    \/ RunAudioExample
    \/ RunCapturePhase
    \/ IndLaunch
    \/ IndStep
    \/ IndAttempt
    \/ IndRelaunch
    \/ IndFinally
    \/ CaptureReturn
    \/ AssembleIndependent

SpecExample == InitExample /\ [][NextExample]_vars

ExampleAudio == [i \in {1, 2} |-> IF i = 1 THEN 30 ELSE 40]

\* C25: in independent mode every successful capture attempt held the page
\* for its step's audio_duration + 1.4 s (4.4 s for a narration of 3.0 s,
\* 5.4 s for one of 4.0 s), and with target_duration 10 s the local audio
\* phase accepts narrations of 3.0 s and 4.0 s.
C25_HoldsOfTheExample ==
    /\ pc = "audio" => ~PrerenderTts(ExampleAudio, EmptyNarrations, TRUE).raised
    /\ \A k \in DOMAIN step_log :
          step_log[k].outcome = "ok" =>
             LET audio_duration == step_audio[steps[step_log[k].idx]]
             IN /\ step_log[k].hold = audio_duration + 14
                /\ audio_duration = 30 => step_log[k].hold = 44
                /\ audio_duration = 40 => step_log[k].hold = 54

C25_Witness ==
    /\ step_audio = ExampleAudio
    /\ target_duration = 100
    /\ Len(results) = 2
    /\ results[1].success /\ results[2].success
    /\ \E k, l \in DOMAIN step_log :
          /\ step_log[k].idx = 1 /\ step_log[k].hold = 44
          /\ step_log[l].idx = 2 /\ step_log[l].hold = 54
    /\ final_file

\* C26: the re-encode step never ends the run: with the remote backend
\* selected and the remote job failing, timing out or returning no output,
\* the locally encoded file is kept and main goes on to the next phase.
C26_RemoteFailureKeepsLocalEncode ==
    \A k \in DOMAIN phases :
        phases[k].name = "reencode" =>
            /\ phases[k].status = "ok"
            /\ final_file
            /\ k = Len(phases) => pc = PhaseAfter("reencode") /\ rc # 1

\* C27: main applies the intro/outro overlays before it dispatches the
\* re-encode, so that the file sent for re-encode contains the overlays.
C27_OverlaysBeforeReencode ==
    \A k \in DOMAIN phases :
        phases[k].name = "reencode" =>
            \E j \in 1..(k - 1) : phases[j].name = "overlays" /\ phases[j].status = "ok"

ReferencedClips == { results[i].clip_path : i \in DOMAIN results } \ {NoneClip}

\* C28: when assembly returns, no clip a StepResult refers to exists any
\* more (the per-step clips in independent mode, the continuous clip in
\* continuous mode); when assembly raises, every clip is left in place.
C28_ClipsDeletedOnSuccessOnly ==
    [][pc = "assemble" =>
         IF phases'[Len(phases')].status = "ok"
           THEN ReferencedClips \cap clips' = {}
           ELSE clips' = clips]_vars

C28_Witness ==
    /\ JustAssembled
    /\ mode = "independent"
    /\ Len(results) = 2
    /\ ReferencedClips = {1, 2}
    /\ clips = {}

(***************************************************************************)
(* The audio files of a step workflow: prerender_tts with write_wav_atomic *)
(* on one side, ColabTTSDispatcher with the Colab worker on the other.     *)
(* A file is "absent", "partial" (created, not all of its samples written) *)
(* or "complete".  The worker is a notebook outside the sources; it is     *)
(* modelled from the protocol the dispatcher documents: it picks the       *)
(* request up, generates the WAVs, then writes done.marker, or writes      *)
(* error.marker when it fails.  The job directory is one directory that    *)
(* both sides see.                                                         *)
(***************************************************************************)
MaxAudioFiles == 3

AudioRun(function, n) ==
    [function |-> function, items |-> n]

NoAudioFiles(n) ==
    [audio |-> [i \in 1..n |-> "absent"], temp |-> "absent",
     remote |-> [i \in 1..n |-> "absent"],
     request |-> FALSE, done |-> FALSE, error |-> FALSE,
     worker |-> 0, item |-> 1, wav_count |-> 0, reads |-> << >>]

InitAudio ==
    /\ IdlePipeline
    /\ \E n \in 1..MaxAudioFiles :
          \/ /\ pc = "prerender_tts"
             /\ call_args = AudioRun("prerender_tts", n)
             /\ call_result = NoAudioFiles(n)
          \/ /\ pc = "dispatch_and_wait"
             /\ call_args = AudioRun("dispatch_and_wait", n)
             /\ call_result = NoAudioFiles(n)

AudioStep(next_pc, changes) ==
    /\ pc' = next_pc
    /\ call_result' = changes
    /\ UNCHANGED << call_args, pipelineVars >>

ReadOf(by, dir, i, content) ==
    [by |-> by, dir |-> dir, id |-> i, content |-> content]

\* Variant: the samples written to the step's audio path itself.
SfWriteInPlace(path) == "audio"

\* write_wav_atomic: sf.write writes to the temporary file, not to path.
SfWriteTarget(path) == "temp"

\* write_wav_atomic up to the end of the NamedTemporaryFile block: an empty
\* temporary file next to the step's audio path; sf.write has opened its
\* target.
NamedTemporaryFile ==
    /\ pc = "prerender_tts"
    /\ call_result.item <= call_args.items
    /\ LET i == call_result.item
       IN AudioStep("sf.write",
             IF SfWriteTarget(i) = "temp"
               THEN [call_result EXCEPT !.temp = "partial"]
               ELSE [call_result EXCEPT !.temp = "partial",
                                        !.audio[i] = "partial"])

\* sf.write returns with every sample written, or raises; the handler
\* unlinks the temporary file and re-raises.
SfWrite ==
    /\ pc = "sf.write"
    /\ LET i == call_result.item
       IN \/ AudioStep("os.replace",
                IF SfWriteTarget(i) = "temp"
                  THEN [call_result EXCEPT !.temp = "complete"]
                  ELSE [call_result EXCEPT !.audio[i] = "complete"])
          \/ AudioStep("audio_raised", [call_result EXCEPT !.temp = "absent"])

\* os.replace(temp_path, path), then prerender_tts takes the duration from
\* the samples in memory and goes to the next step.
OsReplace ==
    /\ pc = "os.replace"
    /\ LET i == call_result.item
       IN AudioStep("prerender_tts",
             [call_result EXCEPT !.audio[i] = call_result.temp,
                                 !.temp = "absent",
                                 !.item = i + 1])

PrerenderReturn ==
    /\ pc = "prerender_tts"
    /\ call_result.item > call_args.items
    /\ AudioStep("audio_returned", call_result)

\* dispatch_and_wait: request.json written into the new job directory.
DispatchRequest ==
    /\ pc = "dispatch_and_wait"
    /\ AudioStep("_wait_for_completion", [call_result EXCEPT !.request = TRUE])

WorkerRunning == call_result.request /\ ~call_result.done /\ ~call_result.error

\* The worker generates the WAVs one after the other: it starts a file ...
WorkerWavStart ==
    /\ WorkerRunning
    /\ call_result.worker < call_args.items
    /\ call_result.remote[call_result.worker + 1] = "absent"
    /\ AudioStep(pc, [call_result EXCEPT !.remote[call_result.worker + 1] = "partial"])

\* ... and finishes it.
WorkerWavEnd ==
    /\ WorkerRunning
    /\ call_result.worker < call_args.items
    /\ call_result.remote[call_result.worker + 1] = "partial"
    /\ AudioStep(pc, [call_result EXCEPT !.remote[call_result.worker + 1] = "complete",
                                         !.worker = call_result.worker + 1])

\* Protocol step 4 after step 3: done.marker after the WAVs.
WorkerMayWriteDone(worker, n) == worker = n

WorkerDone ==
    /\ WorkerRunning
    /\ WorkerMayWriteDone(call_result.worker, call_args.items)
    /\ AudioStep(pc, [call_result EXCEPT !.done = TRUE])

WorkerError ==
    /\ WorkerRunning
    /\ AudioStep(pc, [call_result EXCEPT !.error = TRUE])

\* One round of the polling loop of _wait_for_completion: error.marker
\* raises, done.marker leaves the loop, otherwise the WAVs are counted for
\* the status line; the loop's else branch raises on the timeout.
WavCount(remote) == Cardinality({ i \in DOMAIN remote : remote[i] # "absent" })

WaitForCompletion ==
    /\ pc = "_wait_for_completion"
    /\ \/ /\ call_result.error
          /\ AudioStep("audio_raised", call_result)
       \/ /\ ~call_result.error
          /\ call_result.done
          /\ AudioStep("_copy_results", call_result)
       \/ /\ ~call_result.error
          /\ ~call_result.done
          /\ \/ AudioStep(pc, [call_result EXCEPT
                                  !.wav_count = WavCount(call_result.remote)])
             \/ AudioStep("audio_raised", call_result)

\* _copy_results, one item: raise when the remote WAV is missing, else copy
\* it into the audio directory and read the copy for its duration.
CopyWav ==
    /\ pc = "_copy_results"
    /\ call_result.item <= call_args.items
    /\ LET i == call_result.item
           remote_wav == call_result.remote[i]
       IN IF remote_wav = "absent"
            THEN AudioStep("audio_raised", call_result)
            ELSE AudioStep(pc,
                   [call_result EXCEPT
                      !.audio[i] = remote_wav,
                      !.item = i + 1,
                      !.reads = call_result.reads
                                   \o << ReadOf("shutil.copy2", "remote", i, remote_wav),
                                         ReadOf("sf.read", "audio", i, remote_wav) >>])

CopyResultsReturn ==
    /\ pc = "_copy_results"
    /\ call_result.item > call_args.items
    /\ AudioStep("audio_returned", call_result)

\* After the audio phase returned, assembly reads every step's audio file.
RECURSIVE AssemblyReads(_, _)
AssemblyReads(audio, i) ==
    IF i > Len(audio) THEN << >>
    ELSE << ReadOf("ffmpeg", "audio", i, audio[i]) >> \o AssemblyReads(audio, i + 1)

MuxReadsAudio ==
    /\ pc = "audio_returned"
    /\ AudioStep("assemble",
          [call_result EXCEPT !.reads = call_result.reads
                                           \o AssemblyReads(call_result.audio, 1)])

NextAudio ==
    \/ NamedTemporaryFile
    \/ SfWrite
    \/ OsReplace
    \/ PrerenderReturn
    \/ DispatchRequest
    \/ WorkerWavStart
    \/ WorkerWavEnd
    \/ WorkerDone
    \/ WorkerError
    \/ WaitForCompletion
    \/ CopyWav
    \/ CopyResultsReturn
    \/ MuxReadsAudio

SpecAudio == InitAudio /\ [][NextAudio]_vars

AudioRunning == call_args # NoCall /\ call_args.function \in { "prerender_tts", "dispatch_and_wait" }

C30_NewBrowserAndContextForRetries ==
    [][/\ (pc' = "ind_attempt" /\ attempts' >= 2) =>
              /\ pc = "ind_relaunch"
              /\ browser \notin open_browsers'
              /\ browser' \notin 1..n_browsers
              /\ browser' \in open_browsers'
       /\ (pc = "ind_attempt" /\ attempts' = attempts + 1) =>
              /\ browser \in open_browsers
              /\ \/ n_contexts' = n_contexts + 1
                 \/ /\ n_contexts' = n_contexts
                    /\ step_log'[Len(step_log')].outcome = "failed"]_vars

C30_Witness ==
    /\ pc = "ind_step"
    /\ attempts = 3
    /\ Len(step_log) = 3
    /\ \A k \in 1..3 : step_log[k].idx = 1
    /\ step_log[3].outcome = "ok"
    /\ n_browsers = 2
    /\ browser = 2
    /\ n_contexts = 3

(***************************************************************************)
(* One attempt of capture_step_video in which the page driver raises one   *)
(* PlaywrightError: during page.goto, in run_assertions, or at one driver  *)
(* call of one action of execute_actions.                                  *)
(***************************************************************************)
MaxStepActions == 2

\* The action types execute_actions knows.
DriverActionTypes == ActionTypes \cup { "wait_for_hidden", "scroll", "click_selector" }

\* wait_for_load waits for domcontentloaded (call 1) and for networkidle
\* (call 2); every other action has its driver calls in one place.
DriverCallSites(a_type) == IF a_type = "wait_for_load" THEN 2 ELSE 1

\* execute_actions: a PlaywrightError leaves the function only from the calls
\* that are outside a try block: the domcontentloaded wait of wait_for_load,
\* the wait of pause, and smooth_scroll.
Propagates(a_type, call) ==
    \/ a_type = "wait_for_load" /\ call = 1
    \/ a_type \in { "pause", "scroll" }

NoDriverError == [stage |-> "none", at |-> 0, call |-> 0]

DriverErrors(actions) ==
    { NoDriverError,
      [stage |-> "goto", at |-> 0, call |-> 0],
      [stage |-> "assertions", at |-> 0, call |-> 0] }
    \cup { [stage |-> "actions", at |-> i, call |-> c] :
              i \in DOMAIN actions, c \in 1..2 }

\* capture_step_video with that driver error: TRUE when the exception leaves it.
CaptureStepVideoRaises(actions, error) ==
    \/ error.stage \in { "goto", "assertions" }
    \/ /\ error.stage = "actions"
       /\ Propagates(actions[error.at], error.call)

\* run_capture_phase, the attempt numbered n: the StepResult or the retry.
AttemptOutcome(raised, n, retries) ==
    IF ~raised THEN "success"
    ELSE IF WithinBudget(n, retries) THEN "retry"
    ELSE "failure"

InitActions ==
    /\ IdlePipeline
    /\ pc = "capture_step_video"
    /\ \E n \in 0..MaxStepActions :
       \E actions \in [1..n -> DriverActionTypes] :
       \E error \in DriverErrors(actions) :
       \E retries \in 0..1, attempt \in 1..2 :
          /\ attempt <= retries + 1
          /\ error.stage = "actions" => error.call <= DriverCallSites(actions[error.at])
          /\ call_args = [function |-> "capture_step_video", actions |-> actions,
                          error |-> error, attempt |-> attempt, max_retries |-> retries]
    /\ call_result = NoCall

CaptureStepVideoCall ==
    /\ pc = "capture_step_video"
    /\ call_result = NoCall
    /\ LET raised == CaptureStepVideoRaises(call_args.actions, call_args.error)
       IN call_result' = [function |-> "capture_step_video", raised |-> raised,
                          outcome |-> AttemptOutcome(raised, call_args.attempt,
                                                     call_args.max_retries)]
    /\ UNCHANGED << pc, call_args, pipelineVars >>

NextActions == CaptureStepVideoCall

SpecActions == InitActions /\ [][NextActions]_vars

\* C31: in independent mode a driver error raised while the step navigates,
\* runs its assertions or runs one of its actions makes the attempt fail: it
\* is retried while the retry budget lasts and never counted as a success.
C31_DriverErrorFailsTheAttempt ==
    (pc = "capture_step_video" /\ call_result # NoCall /\ call_args.error # NoDriverError) =>
        /\ call_result.raised
        /\ call_result.outcome # "success"
        /\ WithinBudget(call_args.attempt, call_args.max_retries) =>
              call_result.outcome = "retry"

(***************************************************************************)
(* One segment of _build_zoom_filter_complex: the pair of keyframes prev,  *)
(* curr and what the filter graph does with the frames between them.       *)
(* Pixels are whole numbers; centers stay in tenths of a pixel, which is   *)
(* the precision f"{cx:.1f}" writes; zooms stay in 1/10000, so that the    *)
(* three decimals of f"{zoom:.3f}" show.                                   *)
(***************************************************************************)
Fps == 30
SrcW == 1920
SrcH == 1080

\* int(a / b) for b > 0: truncation toward zero.
IntDiv(a, b) == IF a >= 0 THEN a \div b ELSE 0 - ((0 - a) \div b)

\* max(2, int(src / zoom) // 2 * 2)
CropExtent(src, zoom) == Max(2, (((src * 10000) \div zoom) \div 2) * 2)

\* max(0, min(int(c - extent / 2), src - extent)), c in tenths of a pixel.
CropOrigin(c, extent, src) == Max(0, Min(IntDiv(c - 5 * extent, 10), src - extent))

StaticCrop(curr) ==
    LET w == CropExtent(SrcW, curr.zoom)
        h == CropExtent(SrcH, curr.zoom)
    IN [w |-> w, h |-> h, x |-> CropOrigin(curr.cx, w, SrcW),
        y |-> CropOrigin(curr.cy, h, SrcH)]

\* trans_frames = max(1, int(min(transition_ms / 1000, seg_dur) * fps)),
\* seg_dur in tenths of a second.
TransFrames(transition_ms, seg_dur) ==
    Max(1, (Min(transition_ms, seg_dur * 100) * Fps) \div 1000)
\* seg_frames = max(1, int(seg_dur * fps))
SegFrames(seg_dur) == Max(1, (seg_dur * Fps) \div 10)

\* from + delta * s at frame n, with p = clip(n / trans_frames, 0, 1) and
\* s = p * p * (3 - 2 * p), as a numerator over trans_frames ^ 3.
Eased(from, delta, n, trans_frames) ==
    LET m == Min(Max(n, 0), trans_frames)
    IN from * trans_frames * trans_frames * trans_frames
       + delta * m * m * (3 * trans_frames - 2 * m)

\* The expressions of an animated segment, frame by frame.  z_expr is
\* f"{prev.zoom:.3f}+{curr.zoom - prev.zoom:.3f}*{s}".
AnimatedCrop(prev, curr) ==
    LET seg_dur == curr.time - prev.time
        trans_frames == TransFrames(curr.transition_ms, seg_dur)
        frames == 0..(SegFrames(seg_dur) - 1)
    IN [trans_frames |-> trans_frames,
        seg_frames |-> SegFrames(seg_dur),
        scale |-> trans_frames * trans_frames * trans_frames,
        zoom |-> [n \in frames |-> Eased(Format3f(prev.zoom),
                                          Format3f(curr.zoom - prev.zoom),
                                          n, trans_frames)],
        cx |-> [n \in frames |-> Eased(prev.cx, curr.cx - prev.cx, n, trans_frames)],
        cy |-> [n \in frames |-> Eased(prev.cy, curr.cy - prev.cy, n, trans_frames)]]

\* One iteration of the loop over the pairs of keyframes.
SegmentFilter(prev, curr) ==
    IF ~SegmentKept(prev.time, curr.time)
      THEN [function |-> "_build_zoom_filter_complex", kind |-> "skipped"]
    ELSE IF IsStatic(prev, curr)
      THEN [function |-> "_build_zoom_filter_complex", kind |-> "static",
            crop |-> StaticCrop(curr)]
    ELSE [function |-> "_build_zoom_filter_complex", kind |-> "animated",
          crop |-> AnimatedCrop(prev, curr)]

\* Keyframes at the presets and at the values a per-step override can give:
\* centers on the edges of the frame, zooms below 1 and with four decimals,
\* transitions of no time and longer than the segment.
SegmentKeyframes ==
    { Keyframe(t, cx, cy, z, ms, "full", 0) :
        t \in {0, 1, 10}, cx \in {0, 7800, 9600, 19200}, cy \in {5400, 8700},
        z \in {5000, 10000, 10004, 22000}, ms \in {0, 600} }

InitSegment ==
    /\ IdlePipeline
    /\ pc = "_build_zoom_filter_complex"
    /\ \E prev \in SegmentKeyframes, curr \in SegmentKeyframes :
          /\ prev.time = 0
          /\ prev.transition_ms = 0
          /\ call_args = [function |-> "_build_zoom_filter_complex",
                          prev |-> prev, curr |-> curr]
    /\ call_result = NoCall

SegmentFilterCall ==
    /\ pc = "_build_zoom_filter_complex"
    /\ call_result = NoCall
    /\ call_result' = SegmentFilter(call_args.prev, call_args.curr)
    /\ UNCHANGED << pc, call_args, pipelineVars >>

NextSegment == SegmentFilterCall

SpecSegment == InitSegment /\ [][NextSegment]_vars

SegmentBuilt(kind) ==
    /\ pc = "_build_zoom_filter_complex"
    /\ call_result # NoCall
    /\ call_result.kind = kind

Toward(from, to, a, b) == IF from <= to THEN a <= b ELSE a >= b

\* C32: in an animated segment the transition lasts min(transition
\* duration, segment duration), at least one frame; at frame 0 the eased
\* zoom and center are the previous keyframe's, they move monotonically
\* toward the new keyframe's, and from the end of the window on they are the
\* new keyframe's.
C32_EasedFromPrevToCurr ==
    SegmentBuilt("animated") =>
        LET prev == call_args.prev
            curr == call_args.curr
            crop == call_result.crop
            T == crop.trans_frames
            window == Min(curr.transition_ms, (curr.time - prev.time) * 100)
        IN /\ T >= 1
           /\ T * 1000 <= Max(1000, window * Fps)
           /\ window * Fps < (T + 1) * 1000
           /\ crop.zoom[0] = prev.zoom * crop.scale
           /\ crop.cx[0] = prev.cx * crop.scale
           /\ crop.cy[0] = prev.cy * crop.scale
           /\ \A n \in DOMAIN crop.zoom :
                 /\ (n + 1) \in DOMAIN crop.zoom =>
                       /\ Toward(prev.zoom, curr.zoom, crop.zoom[n], crop.zoom[n + 1])
                       /\ Toward(prev.cx, curr.cx, crop.cx[n], crop.cx[n + 1])
                       /\ Toward(prev.cy, curr.cy, crop.cy[n], crop.cy[n + 1])
                 /\ n >= T =>
                       /\ crop.zoom[n] = curr.zoom * crop.scale
                       /\ crop.cx[n] = curr.cx * crop.scale
                       /\ crop.cy[n] = curr.cy * crop.scale

EvenFloorOfQuotient(extent, src, zoom) ==
    /\ extent % 2 = 0
    /\ extent * zoom <= src * 10000
    /\ src * 10000 < (extent + 2) * zoom

\* C33: the crop rectangle of a static segment has even width and height of
\* at least 2, the source dimension divided by the zoom rounded down to an
\* even number, and lies inside the source frame, whatever the keyframe's
\* zoom and center.
C33_StaticCropInsideFrame ==
    SegmentBuilt("static") =>
        LET crop == call_result.crop
            zoom == call_args.curr.zoom
        IN /\ crop.w >= 2 /\ crop.h >= 2
           /\ EvenFloorOfQuotient(crop.w, SrcW, zoom)
           /\ EvenFloorOfQuotient(crop.h, SrcH, zoom)
           /\ 0 <= crop.x /\ crop.x + crop.w <= SrcW
           /\ 0 <= crop.y /\ crop.y + crop.h <= SrcH

\* C34: when run_capture_phase returns normally without dry-run, whatever
\* max_retries_per_step the validated spec holds, results has exactly one
\* StepResult per spec step, in spec order, each with success, a clip path
\* and an attempt_count from 1 to max_retries_per_step + 1.
C34_OneSuccessPerStepOnReturn ==
    (pc = "capture_return" /\ mode = "independent" /\ ~dry_run /\ ~exc) =>
        /\ Len(results) = Len(steps)
        /\ \A i \in DOMAIN results :
              /\ results[i].step_id = steps[i]
              /\ results[i].success
              /\ results[i].clip_path # NoneClip
              /\ 1 <= results[i].attempt_count
              /\ results[i].attempt_count <= max_retries + 1

CoversOnce(fc_expr, total_duration) ==
    /\ fc_expr # << >>
    /\ fc_expr[1].start = 0
    /\ \A k \in DOMAIN fc_expr : fc_expr[k].start < fc_expr[k].end
    /\ \A k \in 1..(Len(fc_expr) - 1) : fc_expr[k].end = fc_expr[k + 1].start
    /\ fc_expr[Len(fc_expr)].end = total_duration

\* C35: when _maybe_apply_zoom rewrites the assembled file, the segments
\* compiled from the keyframes of build_camera_path are disjoint, in
\* increasing order and together span [0, total_duration), and the zoomed
\* file is as long as the file it was made from.
C35_SegmentsCoverTheInput ==
    [][(pc = "camera" /\ zoom_log' # << >> /\ zoom_log'[1].rewritten) =>
          /\ CoversOnce(zoom_log'[1].filter, final_duration)
          /\ final_duration' = final_duration]_vars

PhaseStatus(name) ==
    IF \E k \in DOMAIN phases : phases[k].name = name
      THEN phases[CHOOSE k \in DOMAIN phases : phases[k].name = name].status
      ELSE "none"

SomeStepFailed == \E i \in DOMAIN results : ~results[i].success

\* No tool outside the program failed after capture: the ffmpeg runs of
\* assembly, zoom and overlays, and the probes of the final file.
ToolsWorked ==
    /\ PhaseStatus("assemble") = "error" => AssembleContinuousVideo(results, TRUE).raised
    /\ PhaseStatus("camera") # "error"
    /\ PhaseStatus("overlays") # "error"
    /\ duration_check # "probe_failed"

\* C36: a continuous run whose capture recorded one or more steps with
\* success = false goes on to assembly, assembly does not refuse it and
\* writes the final video, and main returns 0 unless the final duration
\* exceeds max_duration.
C36_FailedStepsStillGiveAVideo ==
    (InContinuous /\ PhaseStatus("capture") = "ok" /\ SomeStepFailed /\ ToolsWorked) =>
        /\ pc = "assemble" => ~AssembleContinuousVideo(results, TRUE).raised
        /\ pc = "exit" =>
              /\ PhaseStatus("assemble") = "ok"
              /\ final_file
              /\ final_duration <= max_duration => rc = 0

C38_OneBrowserAtATime ==
    [][mode = "independent" =>
         /\ Cardinality(open_browsers') <= 1
         /\ open_browsers' \subseteq {n_browsers'}
         /\ pc = "ind_relaunch" =>
               /\ browser \notin open_browsers'
               /\ open_browsers' \subseteq {n_browsers + 1}
               /\ browser' = n_browsers'
         /\ pc = "ind_finally" =>
               /\ browser = n_browsers
               /\ open_browsers' = {}]_vars

C38_Witness ==
    /\ mode = "independent"
    /\ pc = "capture_return"
    /\ n_browsers = 2
    /\ browser = 2
    /\ open_browsers = {}
    /\ Len(results) = Len(steps)
    /\ Len(steps) = 2

(***************************************************************************)
(* ColabTTSDispatcher._wait_for_completion and _copy_results against a job *)
(* directory whose markers and WAVs appear at any moment and in any order. *)
(* The clock counts poll intervals; time.sleep may return late.            *)
(***************************************************************************)
MaxWaitItems == 2
MaxTimeout == 2

\* items: for each item, whether its narration is non-empty after strip().
WaitCall(has_narration, timeout) ==
    [function |-> "_wait_for_completion", narration |-> has_narration,
     timeout |-> timeout]

EmptyJobDir == [done |-> FALSE, error |-> FALSE, wavs |-> {}]

WaitState ==
    [job_dir |-> EmptyJobDir, clock |-> 0, polls |-> 0, observed_done |-> FALSE,
     item |-> 1, step_audio |-> {}, raised |-> "none"]

InitWait ==
    /\ IdlePipeline
    /\ pc = "_wait_for_completion"
    /\ \E n \in 1..MaxWaitItems, timeout \in 0..MaxTimeout :
         \E has_narration \in [1..n -> BOOLEAN] :
            call_args = WaitCall(has_narration, timeout)
    /\ call_result = WaitState

WaitStep(next_pc, changes) ==
    /\ pc' = next_pc
    /\ call_result' = changes
    /\ UNCHANGED << call_args, pipelineVars >>

\* The other side of the shared directory: a marker or a WAV appears.
JobDirChanges ==
    /\ pc \in { "_wait_for_completion", "_copy_results" }
    /\ \/ /\ ~call_result.job_dir.done
          /\ WaitStep(pc, [call_result EXCEPT !.job_dir.done = TRUE])
       \/ /\ ~call_result.job_dir.error
          /\ WaitStep(pc, [call_result EXCEPT !.job_dir.error = TRUE])
       \/ \E i \in DOMAIN call_args.narration \ call_result.job_dir.wavs :
             WaitStep(pc, [call_result EXCEPT !.job_dir.wavs = @ \cup {i}])

\* Variant: done.marker looked at before error.marker.
PollVerdictDoneFirst(error_exists, done_exists) ==
    IF done_exists THEN "break"
    ELSE IF error_exists THEN "raise"
    ELSE "sleep"
\* The body of the polling loop: error.marker first, then done.marker,
\* then the status line and time.sleep.
PollVerdict(error_exists, done_exists) ==
    IF error_exists THEN "raise"
    ELSE IF done_exists THEN "break"
    ELSE "sleep"

\* Variant: a sleep during which no time passes.
WakeUpsAtOnce(clock, timeout) == { clock }
\* time.sleep(poll_interval) returns one poll interval later, or later
\* than that.
WakeUps(clock, timeout) == (clock + 1)..Max(clock + 1, timeout)

\* One evaluation of `while time.time() < deadline` with the body it runs,
\* or the loop's else branch.
WaitForCompletionPoll ==
    /\ pc = "_wait_for_completion"
    /\ IF call_result.clock >= call_args.timeout
         THEN WaitStep("wait_raised", [call_result EXCEPT !.raised = "timeout"])
         ELSE LET verdict == PollVerdict(call_result.job_dir.error,
                                         call_result.job_dir.done)
                  polled == [call_result EXCEPT !.polls = @ + 1]
              IN CASE verdict = "raise" ->
                        WaitStep("wait_raised", [polled EXCEPT !.raised = "error"])
                   [] verdict = "break" ->
                        WaitStep("_copy_results", [polled EXCEPT !.observed_done = TRUE])
                   [] verdict = "sleep" ->
                        \E t \in WakeUps(call_result.clock, call_args.timeout) :
                           WaitStep(pc, [polled EXCEPT !.clock = t])

\* _copy_results, one item: skipped without narration, raise when its
\* remote WAV is missing, else copied and entered into step_audio.
CopyResultsItem ==
    /\ pc = "_copy_results"
    /\ call_result.item <= Len(call_args.narration)
    /\ LET i == call_result.item
       IN IF ~call_args.narration[i]
            THEN WaitStep(pc, [call_result EXCEPT !.item = i + 1])
            ELSE IF i \notin call_result.job_dir.wavs
              THEN WaitStep("wait_raised", [call_result EXCEPT !.raised = "missing_wav"])
              ELSE WaitStep(pc, [call_result EXCEPT !.item = i + 1,
                                                    !.step_audio = @ \cup {i}])

\* `return step_audio`
CopyResultsEnd ==
    /\ pc = "_copy_results"
    /\ call_result.item > Len(call_args.narration)
    /\ WaitStep("wait_returned", call_result)

NextWait ==
    \/ JobDirChanges
    \/ WaitForCompletionPoll
    \/ CopyResultsItem
    \/ CopyResultsEnd

SpecWait == InitWait /\ [][NextWait]_vars

WaitRunning == call_args # NoCall /\ call_args.function = "_wait_for_completion"

NarrationBearing == { i \in DOMAIN call_args.narration : call_args.narration[i] }

\* A step of the dispatcher itself, the job directory as it was.
DispatcherStep == call_result'.job_dir = call_result.job_dir /\ call_result' # call_result

\* C39: _wait_for_completion returns only after a poll saw done.marker, and
\* then step_audio has an entry for exactly the items with narration; a poll
\* that finds error.marker raises, with or without done.marker; the loop
\* ends by raising once the deadline has passed; _copy_results raises at
\* the first narration-bearing item whose WAV is missing, and nothing is
\* returned after a raise.
C39_ReturnsOnlyACompleteMapping ==
    [][WaitRunning =>
         /\ pc' = "wait_returned" =>
               /\ call_result'.observed_done
               /\ call_result'.step_audio = NarrationBearing
               /\ call_result'.raised = "none"
         /\ (pc = "_wait_for_completion" /\ DispatcherStep) =>
               /\ call_result.job_dir.error =>
                     pc' = "wait_raised"
               /\ call_result.clock >= call_args.timeout =>
                     pc' = "wait_raised" /\ call_result'.raised = "timeout"
               /\ call_result'.observed_done => call_result.job_dir.done
         /\ (pc = "_copy_results" /\ DispatcherStep) =>
               /\ call_result.observed_done
               /\ (/\ call_result.item \in NarrationBearing
                   /\ call_result.item \notin call_result.job_dir.wavs) =>
                     pc' = "wait_raised" /\ call_result'.raised = "missing_wav"
         /\ pc = "wait_raised" => pc' = "wait_raised"]_vars

C39_Witness ==
    /\ WaitRunning
    /\ pc = "wait_returned"
    /\ call_args.narration = << TRUE, FALSE >>
    /\ call_result.step_audio = {1}
    /\ call_result.polls = 2
    /\ call_result.job_dir.wavs = {1}
    /\ call_result.job_dir.done
    /\ ~call_result.job_dir.error

(***************************************************************************)
(* Runs of main and runs of the polling loop under the assumption that     *)
(* every external call returns: the program takes its next step whenever   *)
(* it has one.  Nothing is assumed of the other side of the job directory. *)
(***************************************************************************)
InitLive == Init \/ InitWait

DispatcherNext ==
    \/ WaitForCompletionPoll
    \/ CopyResultsItem
    \/ CopyResultsEnd

NextLive == Next \/ NextWait

SpecLive ==
    /\ InitLive
    /\ [][NextLive]_vars
    /\ WF_vars(Next)
    /\ WF_vars(DispatcherNext)

MainTerminated == call_args = NoCall /\ pc = "exit" /\ rc \in { 0, 1 }

WaitTerminated == WaitRunning /\ pc \in { "wait_returned", "wait_raised" }

Iterations(i) == Cardinality({ k \in DOMAIN step_log : step_log[k].idx = i })

====
